---- MODULE Spec2Model ----
(***************************************************************************)
(* Authentication and account recovery of the users endpoints              *)
(* (src/src/endpoints/users-public.js): login, recover-step1 and           *)
(* recover-step2 over the credential store, the recovery-code cache and    *)
(* the two rate limiters.                                                   *)
(*                                                                          *)
(* Every handler is an async function: it runs synchronously up to an      *)
(* `await`, and other requests may run while it waits.  Each handler is    *)
(* therefore a sequence of steps, one per stretch of code between two      *)
(* awaits; a request slot holds the handler's local variables and its      *)
(* position.  The sequential specifications run one request at a time, the *)
(* concurrent one interleaves the steps of several.                        *)
(*                                                                          *)
(* Time is kept relative: every expiring entry carries the seconds it has  *)
(* left, and Elapse(d) lets d seconds pass.                                 *)
(***************************************************************************)
EXTENDS Integers, Sequences, FiniteSets, TLC

VARIABLES
    store,           \* node-persist storage: key -> account record
    cache,           \* MFA_CACHE: handle -> outstanding recovery code
    loginLimiter,    \* loginLimiter: source address -> bucket
    recoverLimiter,  \* recoverLimiter: source address -> bucket
    reqs,            \* the requests in flight: slot -> handler locals
    challenges,      \* history: per handle, the challenges issued and verified
    attempts         \* history: per source address, the login attempts

vars == <<store, cache, loginLimiter, recoverLimiter, reqs, challenges, attempts>>

----------------------------------------------------------------------------
(* Bounds and input sets *)

\* Request slots: how many requests may be in flight together.
NumReqs == 2
\* How many steps of time one window is cut into.
TicksPerWindow == 2

Reqs == 1..NumReqs
Handles == {"alice", "bob", "carol"}
IPs == {"10.0.0.1", "10.0.0.2"}
\* String(crypto.randomInt(1000, 9999)): two of the possible codes.
Codes == {"1000", "9998"}
Salts == {"s1", "s2"}
\* A field the request body does not carry (undefined).
Missing == "<undefined>"
\* Passwords a body may carry; the empty string is falsy like Missing.
Passwords == {"", "pw1", "pw2"}
\* What Cache.get answers on a miss (null).
Miss == "<null>"

\* Handles as a create request may spell them, display names, and the values
\* of Date.now().
RawHandles == {"alice", "Alice", " Bob ", "carol", "!!!"}
Names == {"Anna"}
Times == {1, 2}

\* JavaScript's !x for a body field.
Falsy(x) == x \in {Missing, ""}

----------------------------------------------------------------------------
(* Program constants *)

LoginPoints == 5
LoginDuration == 60
RecoverPoints == 5
RecoverDuration == 300
\* new Cache(5 * 60 * 1000): milliseconds, kept here in seconds.
MfaTtl == (5 * 60 * 1000) \div 1000
KEY_PREFIX == "user:"

LoginTick == LoginDuration \div TicksPerWindow
RecoverTick == RecoverDuration \div TicksPerWindow

----------------------------------------------------------------------------
(* Credential store *)

toKey(handle) == <<KEY_PREFIX, handle>>
Keys == {toKey(h) : h \in Handles}

\* The '' a record holds for "no password set".
EmptyHash == <<>>

\* One-way hash of a password under a salt: a symbolic pair, equal exactly
\* when both inputs are equal.
getPasswordHash(password, salt) == <<password, salt>>

\* What storage.getItem answers for a key with no record (undefined).
NoUser ==
    [exists |-> FALSE, handle |-> "", name |-> "", created |-> 0,
     password |-> EmptyHash, salt |-> "", admin |-> FALSE, enabled |-> FALSE]

\* An account record; its display name is its handle and its creation time 0
\* unless the record is built by create.
User(handle, password, salt, admin, enabled) ==
    [exists |-> TRUE, handle |-> handle, name |-> handle, created |-> 0,
     password |-> password, salt |-> salt, admin |-> admin, enabled |-> enabled]

\* getAllUserHandles(): the handles of the records in the store.
getAllUserHandles == {store[k].handle : k \in {x \in Keys : store[x].exists}}

getItem(key) == store[key]

----------------------------------------------------------------------------
(* Rate limiter (RateLimiterMemory): per key, the points consumed in the   *)
(* current window and the seconds the window has left.                     *)

NoBucket == [consumed |-> 0, left |-> 0]

\* consume(key) is rejected when the window's points are used up.
Rejects(limiter, key, points) ==
    limiter[key].left > 0 /\ limiter[key].consumed >= points

\* consume(key), accepted: one point more; the first point opens the window.
consume(limiter, key, duration) ==
    IF limiter[key].left > 0
    THEN [limiter EXCEPT ![key].consumed = @ + 1]
    ELSE [limiter EXCEPT ![key] = [consumed |-> 1, left |-> duration]]

\* delete(key): the bucket is forgotten, the key is back at its full budget.
delete(limiter, key) == [limiter EXCEPT ![key] = NoBucket]

Remaining(limiter, key, points) ==
    IF limiter[key].left > 0 THEN points - limiter[key].consumed ELSE points

\* d seconds pass: a window that runs out is dropped.
AgeLimiter(limiter, d) ==
    [k \in DOMAIN limiter |->
        IF limiter[k].left > d
        THEN [limiter[k] EXCEPT !.left = @ - d]
        ELSE NoBucket]

----------------------------------------------------------------------------
(* TTL cache (Cache): per key, the value and the seconds it has left.  An  *)
(* entry that ran out stays in the map until it is overwritten or removed. *)

NoEntry == [value |-> Miss, left |-> 0]

CacheSet(c, key, value) == [c EXCEPT ![key] = [value |-> value, left |-> MfaTtl]]

CacheGet(c, key) == IF c[key].left > 0 THEN c[key].value ELSE Miss

CacheRemove(c, key) == [c EXCEPT ![key] = NoEntry]

AgeCache(c, d) ==
    [k \in DOMAIN c |->
        IF c[k].left > d
        THEN [c[k] EXCEPT !.left = @ - d]
        ELSE [c[k] EXCEPT !.left = 0]]

----------------------------------------------------------------------------
(* Requests *)

Idle ==
    [kind |-> "none", pc |-> "idle", ip |-> "", handle |-> Missing,
     code |-> Missing, password |-> Missing, user |-> NoUser, mfaCode |-> Miss,
     status |-> 0, error |-> "", session |-> "", before |-> <<>>,
     stale |-> FALSE, name |-> Missing, handles |-> {}, caller |-> Missing,
     page |-> Missing, pageSize |-> Missing, searchQuery |-> Missing,
     purge |-> FALSE, users |-> <<>>, body |-> <<>>]

\* A request as it arrives: the source address and the body's fields.
\* `before` and `stale` are history: the credential store as the request
\* found it, and whether the limiter window that holds the point of a login
\* request has run out while the request was in flight.
Arrive(kind, ip, handle, code, password) ==
    [Idle EXCEPT !.kind = kind, !.pc = "start", !.ip = ip, !.handle = handle,
                 !.code = code, !.password = password, !.before = store]

\* The handler answers: status code and the error message of the body.
Respond(q, status, error) ==
    [q EXCEPT !.pc = "done", !.status = status, !.error = error]

Free(r) == reqs[r].pc \in {"idle", "done"}

----------------------------------------------------------------------------
(* History.  Neither variable is read by a handler.                        *)

\* Per handle: the code of the latest challenge issued, the outstanding code
\* that issuance replaced (Miss when it replaced none or the same code), and
\* how many recover-step2 requests were answered 204 since that issuance.
NoChallenge == [issued |-> Miss, superseded |-> Miss, wins |-> 0]

Issued(h, mfaCode) ==
    LET old == CacheGet(cache, h) IN
    [challenges EXCEPT ![h] =
        [issued |-> mfaCode,
         superseded |-> IF old = mfaCode THEN Miss ELSE old,
         wins |-> 0]]

Verified(h) == [challenges EXCEPT ![h].wins = @ + 1]

\* Per source address: the login requests answered 403 since the last
\* successful login whose point lies in the limiter's current window, and the login requests
\* that named a handle since the last successful login (counted up to the
\* limiter's points; -1 while no login has succeeded).
NoAttempts == [failed |-> 0, sinceSuccess |-> -1]
AfterSuccess == [failed |-> 0, sinceSuccess |-> 0]

Min(a, b) == IF a < b THEN a ELSE b

----------------------------------------------------------------------------
(* router.post('/login') *)

\* Mutant: the point is taken before the body is looked at.
LoginStart_ConsumesFirst(r, ip, handle, password) ==
    /\ Free(r)
    /\ LET q == Arrive("login", ip, handle, Missing, password) IN
       IF Rejects(loginLimiter, ip, LoginPoints)
       THEN /\ reqs' = [reqs EXCEPT ![r] =
                          Respond(q, 429, "Too many attempts. Try again later or recover your password.")]
            /\ UNCHANGED <<loginLimiter, attempts>>
       ELSE /\ loginLimiter' = consume(loginLimiter, ip, LoginDuration)
            /\ IF Falsy(handle)
               THEN /\ reqs' = [reqs EXCEPT ![r] = Respond(q, 400, "Missing required fields")]
                    /\ UNCHANGED attempts
               ELSE /\ reqs' = [reqs EXCEPT ![r] = [q EXCEPT !.pc = "read"]]
                    /\ attempts' = [attempts EXCEPT ![ip].sinceSuccess =
                                       IF @ < 0 THEN @ ELSE Min(@ + 1, LoginPoints + 1)]
    /\ UNCHANGED <<store, cache, recoverLimiter, challenges>>

\* Mutant: a rejected request starts the window of its address afresh.
LoginStart_RejectionRestartsWindow(r, ip, handle, password) ==
    /\ Free(r)
    /\ LET q == Arrive("login", ip, handle, Missing, password) IN
       IF Falsy(handle)
       THEN /\ reqs' = [reqs EXCEPT ![r] = Respond(q, 400, "Missing required fields")]
            /\ UNCHANGED <<loginLimiter, attempts>>
       ELSE /\ attempts' = [attempts EXCEPT ![ip].sinceSuccess =
                               IF @ < 0 THEN @ ELSE Min(@ + 1, LoginPoints + 1)]
            /\ IF Rejects(loginLimiter, ip, LoginPoints)
               THEN /\ reqs' = [reqs EXCEPT ![r] =
                                  Respond(q, 429, "Too many attempts. Try again later or recover your password.")]
                    /\ loginLimiter' = [loginLimiter EXCEPT ![ip].left = LoginDuration]
               ELSE /\ reqs' = [reqs EXCEPT ![r] = [q EXCEPT !.pc = "read"]]
                    /\ loginLimiter' = consume(loginLimiter, ip, LoginDuration)
    /\ UNCHANGED <<store, cache, recoverLimiter, challenges>>

\* Mutant: the rejection of consume is swallowed and the point is taken.
LoginStart_IgnoresLimiter(r, ip, handle, password) ==
    /\ Free(r)
    /\ LET q == Arrive("login", ip, handle, Missing, password) IN
       IF Falsy(handle)
       THEN /\ reqs' = [reqs EXCEPT ![r] = Respond(q, 400, "Missing required fields")]
            /\ UNCHANGED <<loginLimiter, attempts>>
       ELSE /\ attempts' = [attempts EXCEPT ![ip].sinceSuccess =
                               IF @ < 0 THEN @ ELSE Min(@ + 1, LoginPoints + 1)]
            /\ reqs' = [reqs EXCEPT ![r] = [q EXCEPT !.pc = "read"]]
            /\ loginLimiter' = consume(loginLimiter, ip, LoginDuration)
    /\ UNCHANGED <<store, cache, recoverLimiter, challenges>>

\* Up to `await loginLimiter.consume(ip)`.
LoginStart(r, ip, handle, password) ==
    /\ Free(r)
    /\ LET q == Arrive("login", ip, handle, Missing, password) IN
       IF Falsy(handle)
       THEN /\ reqs' = [reqs EXCEPT ![r] = Respond(q, 400, "Missing required fields")]
            /\ UNCHANGED <<loginLimiter, attempts>>
       ELSE /\ attempts' = [attempts EXCEPT ![ip].sinceSuccess =
                               IF @ < 0 THEN @ ELSE Min(@ + 1, LoginPoints + 1)]
            /\ IF Rejects(loginLimiter, ip, LoginPoints)
               THEN /\ reqs' = [reqs EXCEPT ![r] =
                                  Respond(q, 429, "Too many attempts. Try again later or recover your password.")]
                    /\ UNCHANGED loginLimiter
               ELSE /\ reqs' = [reqs EXCEPT ![r] = [q EXCEPT !.pc = "read"]]
                    /\ loginLimiter' = consume(loginLimiter, ip, LoginDuration)
    /\ UNCHANGED <<store, cache, recoverLimiter, challenges>>

\* `await storage.getItem(toKey(request.body.handle))`.
LoginRead(r) ==
    /\ reqs[r].kind = "login" /\ reqs[r].pc = "read"
    /\ reqs' = [reqs EXCEPT ![r].user = getItem(toKey(reqs[r].handle)),
                            ![r].pc = "check"]
    /\ UNCHANGED <<store, cache, loginLimiter, recoverLimiter, challenges, attempts>>

\* The handler hashes the supplied password only when the record holds a
\* hash.  The hash of a password the body does not carry is not fixed by the
\* handler: the hash function either throws (the handler's catch answers
\* 500) or yields a hash that no stored hash equals (403).
PasswordUndefined(q) == q.user.password # EmptyHash /\ q.password = Missing

\* Mutant: the hashes are compared without the test that a hash is stored.
PasswordWrong_NoGuard(q) ==
    q.user.password # getPasswordHash(q.password, q.user.salt)

\* user.password && user.password !== getPasswordHash(request.body.password, user.salt)
PasswordWrong(q) ==
    /\ q.user.password # EmptyHash
    /\ q.user.password # getPasswordHash(q.password, q.user.salt)

\* Mutant: the test of the enabled flag is left out.
LoginVerdict_SkipsEnabled(q, thrown) ==
    IF ~q.user.exists THEN <<403, "Incorrect credentials">>
    ELSE IF PasswordUndefined(q) /\ thrown THEN <<500, "">>
    ELSE IF PasswordWrong(q) THEN <<403, "Incorrect credentials">>
    ELSE <<200, "">>

\* Mutant: a handle without a record gets a message of its own.
LoginVerdict_RevealsUnknown(q, thrown) ==
    IF ~q.user.exists THEN <<403, "User not found">>
    ELSE IF ~q.user.enabled THEN <<403, "User is disabled">>
    ELSE IF PasswordUndefined(q) /\ thrown THEN <<500, "">>
    ELSE IF PasswordWrong(q) THEN <<403, "Incorrect credentials">>
    ELSE <<200, "">>

\* Mutant: a handle without a record is answered 404, as in recover-step1.
LoginVerdict_UnknownIs404(q, thrown) ==
    IF ~q.user.exists THEN <<404, "Incorrect credentials">>
    ELSE IF ~q.user.enabled THEN <<403, "User is disabled">>
    ELSE IF PasswordUndefined(q) /\ thrown THEN <<500, "">>
    ELSE IF PasswordWrong(q) THEN <<403, "Incorrect credentials">>
    ELSE <<200, "">>

\* The answer of the checks on the record read: <<status, error>>, with
\* status 200 when they all pass.
LoginVerdict(q, thrown) ==
    IF ~q.user.exists THEN <<403, "Incorrect credentials">>
    ELSE IF ~q.user.enabled THEN <<403, "User is disabled">>
    ELSE IF PasswordUndefined(q) /\ thrown THEN <<500, "">>
    ELSE IF PasswordWrong(q) THEN <<403, "Incorrect credentials">>
    ELSE <<200, "">>

\* Mutant: loginLimiter.delete(ip) is called before the checks, so a failed
\* attempt gives its point back.
LoginCheck_ResetsFirst(r) ==
    /\ reqs[r].kind = "login" /\ reqs[r].pc = "check"
    /\ \E thrown \in BOOLEAN :
        LET q == reqs[r]
            v == LoginVerdict(q, thrown) IN
        /\ loginLimiter' = delete(loginLimiter, q.ip)
        /\ IF v[1] = 200
           THEN /\ reqs' = [reqs EXCEPT ![r] =
                              [Respond(q, 200, "") EXCEPT !.session = q.user.handle]]
                /\ attempts' = [attempts EXCEPT ![q.ip] = AfterSuccess]
           ELSE /\ reqs' = [reqs EXCEPT ![r] = Respond(q, v[1], v[2])]
                /\ attempts' = [attempts EXCEPT ![q.ip].failed =
                                   IF v[1] = 403 /\ ~q.stale THEN @ + 1 ELSE @]
    /\ UNCHANGED <<store, cache, recoverLimiter, challenges>>

\* Mutant: a successful login leaves the bucket as it is.
LoginCheck_NoReset(r) ==
    /\ reqs[r].kind = "login" /\ reqs[r].pc = "check"
    /\ \E thrown \in BOOLEAN :
        LET q == reqs[r]
            v == LoginVerdict(q, thrown) IN
        IF v[1] = 200
        THEN /\ reqs' = [reqs EXCEPT ![r] =
                           [Respond(q, 200, "") EXCEPT !.session = q.user.handle]]
             /\ attempts' = [attempts EXCEPT ![q.ip] = AfterSuccess]
        ELSE /\ reqs' = [reqs EXCEPT ![r] = Respond(q, v[1], v[2])]
             /\ attempts' = [attempts EXCEPT ![q.ip].failed =
                                IF v[1] = 403 /\ ~q.stale THEN @ + 1 ELSE @]
    /\ UNCHANGED <<store, cache, loginLimiter, recoverLimiter, challenges>>

\* Mutant: a successful login also forgets the recovery bucket of the
\* address.
LoginCheck_ResetsBoth(r) ==
    /\ reqs[r].kind = "login" /\ reqs[r].pc = "check"
    /\ \E thrown \in BOOLEAN :
        LET q == reqs[r]
            v == LoginVerdict(q, thrown) IN
        IF v[1] = 200
        THEN /\ loginLimiter' = delete(loginLimiter, q.ip)
             /\ recoverLimiter' = delete(recoverLimiter, q.ip)
             /\ reqs' = [reqs EXCEPT ![r] =
                           [Respond(q, 200, "") EXCEPT !.session = q.user.handle]]
             /\ attempts' = [attempts EXCEPT ![q.ip] = AfterSuccess]
        ELSE /\ reqs' = [reqs EXCEPT ![r] = Respond(q, v[1], v[2])]
             /\ attempts' = [attempts EXCEPT ![q.ip].failed =
                                IF v[1] = 403 /\ ~q.stale THEN @ + 1 ELSE @]
             /\ UNCHANGED <<loginLimiter, recoverLimiter>>
    /\ UNCHANGED <<store, cache, challenges>>

\* The checks, then `await loginLimiter.delete(ip)` and the session.
LoginCheck(r) ==
    /\ reqs[r].kind = "login" /\ reqs[r].pc = "check"
    /\ \E thrown \in BOOLEAN :
        LET q == reqs[r]
            v == LoginVerdict(q, thrown) IN
        IF v[1] = 200
        THEN /\ loginLimiter' = delete(loginLimiter, q.ip)
             /\ reqs' = [reqs EXCEPT ![r] =
                           [Respond(q, 200, "") EXCEPT !.session = q.user.handle]]
             /\ attempts' = [attempts EXCEPT ![q.ip] = AfterSuccess]
        ELSE /\ reqs' = [reqs EXCEPT ![r] = Respond(q, v[1], v[2])]
             /\ attempts' = [attempts EXCEPT ![q.ip].failed =
                                IF v[1] = 403 /\ ~q.stale THEN @ + 1 ELSE @]
             /\ UNCHANGED loginLimiter
    /\ UNCHANGED <<store, cache, recoverLimiter, challenges>>

----------------------------------------------------------------------------
(* router.post('/recover-step1') *)

\* Up to `await recoverLimiter.consume(ip)`.
Step1Start(r, ip, handle) ==
    /\ Free(r)
    /\ LET q == Arrive("step1", ip, handle, Missing, Missing) IN
       IF Falsy(handle)
       THEN /\ reqs' = [reqs EXCEPT ![r] = Respond(q, 400, "Missing required fields")]
            /\ UNCHANGED recoverLimiter
       ELSE IF Rejects(recoverLimiter, ip, RecoverPoints)
       THEN /\ reqs' = [reqs EXCEPT ![r] =
                          Respond(q, 429, "Too many attempts. Try again later or contact your admin.")]
            /\ UNCHANGED recoverLimiter
       ELSE /\ reqs' = [reqs EXCEPT ![r] = [q EXCEPT !.pc = "read"]]
            /\ recoverLimiter' = consume(recoverLimiter, ip, RecoverDuration)
    /\ UNCHANGED <<store, cache, loginLimiter, challenges, attempts>>

\* `await storage.getItem(toKey(request.body.handle))`.
Step1Read(r) ==
    /\ reqs[r].kind = "step1" /\ reqs[r].pc = "read"
    /\ reqs' = [reqs EXCEPT ![r].user = getItem(toKey(reqs[r].handle)),
                            ![r].pc = "issue"]
    /\ UNCHANGED <<store, cache, loginLimiter, recoverLimiter, challenges, attempts>>

\* Mutant: a request that fails gives its point back.
Step1Issue_FailureRefunds(r) ==
    /\ reqs[r].kind = "step1" /\ reqs[r].pc = "issue"
    /\ LET q == reqs[r] IN
       IF ~q.user.exists
       THEN /\ reqs' = [reqs EXCEPT ![r] = Respond(q, 404, "User not found")]
            /\ recoverLimiter' = delete(recoverLimiter, q.ip)
            /\ UNCHANGED <<cache, challenges>>
       ELSE IF ~q.user.enabled
       THEN /\ reqs' = [reqs EXCEPT ![r] = Respond(q, 403, "User is disabled")]
            /\ recoverLimiter' = delete(recoverLimiter, q.ip)
            /\ UNCHANGED <<cache, challenges>>
       ELSE \E mfaCode \in Codes :
            /\ cache' = CacheSet(cache, q.user.handle, mfaCode)
            /\ challenges' = Issued(q.user.handle, mfaCode)
            /\ reqs' = [reqs EXCEPT ![r] = Respond(q, 204, "")]
            /\ UNCHANGED recoverLimiter
    /\ UNCHANGED <<store, loginLimiter, attempts>>

\* Mutant: a code that is still outstanding is not overwritten.
Step1Issue_KeepsOutstanding(r) ==
    /\ reqs[r].kind = "step1" /\ reqs[r].pc = "issue"
    /\ LET q == reqs[r] IN
       IF ~q.user.exists
       THEN /\ reqs' = [reqs EXCEPT ![r] = Respond(q, 404, "User not found")]
            /\ UNCHANGED <<cache, challenges>>
       ELSE IF ~q.user.enabled
       THEN /\ reqs' = [reqs EXCEPT ![r] = Respond(q, 403, "User is disabled")]
            /\ UNCHANGED <<cache, challenges>>
       ELSE \E mfaCode \in Codes :
            /\ cache' = IF CacheGet(cache, q.user.handle) = Miss
                        THEN CacheSet(cache, q.user.handle, mfaCode)
                        ELSE cache
            /\ challenges' = Issued(q.user.handle, mfaCode)
            /\ reqs' = [reqs EXCEPT ![r] = Respond(q, 204, "")]
    /\ UNCHANGED <<store, loginLimiter, recoverLimiter, attempts>>

\* Mutant: the code is sent back in the body of the response.
Step1Issue_ReturnsCode(r) ==
    /\ reqs[r].kind = "step1" /\ reqs[r].pc = "issue"
    /\ LET q == reqs[r] IN
       IF ~q.user.exists
       THEN /\ reqs' = [reqs EXCEPT ![r] = Respond(q, 404, "User not found")]
            /\ UNCHANGED <<cache, challenges>>
       ELSE IF ~q.user.enabled
       THEN /\ reqs' = [reqs EXCEPT ![r] = Respond(q, 403, "User is disabled")]
            /\ UNCHANGED <<cache, challenges>>
       ELSE \E mfaCode \in Codes :
            /\ cache' = CacheSet(cache, q.user.handle, mfaCode)
            /\ challenges' = Issued(q.user.handle, mfaCode)
            /\ reqs' = [reqs EXCEPT ![r] = Respond(q, 200, mfaCode)]
    /\ UNCHANGED <<store, loginLimiter, recoverLimiter, attempts>>

\* The checks on the record read, then a random code into MFA_CACHE.  The
\* code goes to the console, never into the response.
Step1Issue(r) ==
    /\ reqs[r].kind = "step1" /\ reqs[r].pc = "issue"
    /\ LET q == reqs[r] IN
       IF ~q.user.exists
       THEN /\ reqs' = [reqs EXCEPT ![r] = Respond(q, 404, "User not found")]
            /\ UNCHANGED <<cache, challenges>>
       ELSE IF ~q.user.enabled
       THEN /\ reqs' = [reqs EXCEPT ![r] = Respond(q, 403, "User is disabled")]
            /\ UNCHANGED <<cache, challenges>>
       ELSE \E mfaCode \in Codes :
            /\ cache' = CacheSet(cache, q.user.handle, mfaCode)
            /\ challenges' = Issued(q.user.handle, mfaCode)
            /\ reqs' = [reqs EXCEPT ![r] = Respond(q, 204, "")]
    /\ UNCHANGED <<store, loginLimiter, recoverLimiter, attempts>>

----------------------------------------------------------------------------
(* router.post('/recover-step2') *)

\* The body's fields are checked; no limiter is consulted here.
Step2Start(r, ip, handle, code, newPassword) ==
    /\ Free(r)
    /\ LET q == Arrive("step2", ip, handle, code, newPassword) IN
       IF Falsy(handle) \/ Falsy(code)
       THEN reqs' = [reqs EXCEPT ![r] = Respond(q, 400, "Missing required fields")]
       ELSE reqs' = [reqs EXCEPT ![r] = [q EXCEPT !.pc = "read"]]
    /\ UNCHANGED <<store, cache, loginLimiter, recoverLimiter, challenges, attempts>>

\* `await storage.getItem(toKey(request.body.handle))`.
Step2Read(r) ==
    /\ reqs[r].kind = "step2" /\ reqs[r].pc = "read"
    /\ reqs' = [reqs EXCEPT ![r].user = getItem(toKey(reqs[r].handle)),
                            ![r].pc = "check"]
    /\ UNCHANGED <<store, cache, loginLimiter, recoverLimiter, challenges, attempts>>

\* Mutant: the codes are compared only when the cache holds one,
\* mfaCode && request.body.code !== mfaCode.
CodeDiffers_OnlyIfCached(code, mfaCode) == mfaCode # Miss /\ code # mfaCode

\* request.body.code !== mfaCode
CodeDiffers(code, mfaCode) == code # mfaCode

\* Mutant: the new password is hashed under the salt the record held.
WithPassword_HashesOldSalt(user, newPassword, salt) ==
    IF Falsy(newPassword)
    THEN [user EXCEPT !.password = EmptyHash, !.salt = ""]
    ELSE [user EXCEPT !.password = getPasswordHash(newPassword, user.salt), !.salt = salt]

\* Mutant: without a new password only the hash is cleared.
WithPassword_KeepsSalt(user, newPassword, salt) ==
    IF Falsy(newPassword)
    THEN [user EXCEPT !.password = EmptyHash]
    ELSE [user EXCEPT !.password = getPasswordHash(newPassword, salt), !.salt = salt]

\* Mutant: the record is rebuilt from the handle, as an ordinary account.
WithPassword_RebuildsRecord(user, newPassword, salt) ==
    IF Falsy(newPassword)
    THEN User(user.handle, EmptyHash, "", FALSE, TRUE)
    ELSE User(user.handle, getPasswordHash(newPassword, salt), salt, FALSE, TRUE)

\* The record the handler is about to write: a fresh salt and the hash of
\* the new password, or hash and salt cleared when none was supplied.
WithPassword(user, newPassword, salt) ==
    IF Falsy(newPassword)
    THEN [user EXCEPT !.password = EmptyHash, !.salt = ""]
    ELSE [user EXCEPT !.password = getPasswordHash(newPassword, salt), !.salt = salt]

\* What the checks of recover-step2 decide on the record read and the code
\* looked up: "pass", or the status of the refusal ("mismatch" goes on to
\* the limiter).
Step2Verdict(q, mfaCode) ==
    IF ~q.user.exists THEN "404"
    ELSE IF ~q.user.enabled THEN "403"
    ELSE IF CodeDiffers(q.code, mfaCode) THEN "mismatch"
    ELSE "pass"

\* Mutant: a wrong code spends the challenge.
Step2Check_MismatchInvalidates(r) ==
    /\ reqs[r].kind = "step2" /\ reqs[r].pc = "check"
    /\ LET q == reqs[r]
           mfaCode == IF q.user.exists /\ q.user.enabled
                      THEN CacheGet(cache, q.user.handle) ELSE Miss
           v == Step2Verdict(q, mfaCode)
           seen == [q EXCEPT !.mfaCode = mfaCode] IN
       IF v = "404"
       THEN /\ reqs' = [reqs EXCEPT ![r] = Respond(seen, 404, "User not found")]
            /\ UNCHANGED <<recoverLimiter, cache>>
       ELSE IF v = "403"
       THEN /\ reqs' = [reqs EXCEPT ![r] = Respond(seen, 403, "User is disabled")]
            /\ UNCHANGED <<recoverLimiter, cache>>
       ELSE IF v = "mismatch"
       THEN IF Rejects(recoverLimiter, q.ip, RecoverPoints)
            THEN /\ reqs' = [reqs EXCEPT ![r] =
                               Respond(seen, 429, "Too many attempts. Try again later or contact your admin.")]
                 /\ UNCHANGED <<recoverLimiter, cache>>
            ELSE /\ reqs' = [reqs EXCEPT ![r] = Respond(seen, 403, "Incorrect code")]
                 /\ recoverLimiter' = consume(recoverLimiter, q.ip, RecoverDuration)
                 /\ cache' = CacheRemove(cache, q.user.handle)
       ELSE /\ \E salt \in Salts :
                 reqs' = [reqs EXCEPT ![r] =
                            [seen EXCEPT !.user = WithPassword(q.user, q.password, salt),
                                         !.pc = "write"]]
            /\ UNCHANGED <<recoverLimiter, cache>>
    /\ UNCHANGED <<store, loginLimiter, challenges, attempts>>

\* Mutant: the `return` after "Incorrect code" is missing, so a request
\* whose point was accepted goes on to write the password.
Step2Check_MismatchFallsThrough(r) ==
    /\ reqs[r].kind = "step2" /\ reqs[r].pc = "check"
    /\ LET q == reqs[r]
           mfaCode == IF q.user.exists /\ q.user.enabled
                      THEN CacheGet(cache, q.user.handle) ELSE Miss
           v == Step2Verdict(q, mfaCode)
           seen == [q EXCEPT !.mfaCode = mfaCode] IN
       IF v = "404"
       THEN /\ reqs' = [reqs EXCEPT ![r] = Respond(seen, 404, "User not found")]
            /\ UNCHANGED recoverLimiter
       ELSE IF v = "403"
       THEN /\ reqs' = [reqs EXCEPT ![r] = Respond(seen, 403, "User is disabled")]
            /\ UNCHANGED recoverLimiter
       ELSE IF v = "mismatch" /\ Rejects(recoverLimiter, q.ip, RecoverPoints)
       THEN /\ reqs' = [reqs EXCEPT ![r] =
                          Respond(seen, 429, "Too many attempts. Try again later or contact your admin.")]
            /\ UNCHANGED recoverLimiter
       ELSE /\ \E salt \in Salts :
                 reqs' = [reqs EXCEPT ![r] =
                            [seen EXCEPT !.user = WithPassword(q.user, q.password, salt),
                                         !.pc = "write"]]
            /\ recoverLimiter' = IF v = "mismatch"
                                 THEN consume(recoverLimiter, q.ip, RecoverDuration)
                                 ELSE recoverLimiter
    /\ UNCHANGED <<store, cache, loginLimiter, challenges, attempts>>

\* Mutant: recoverLimiter.consume(ip) is awaited before the checks on the
\* record, as in recover-step1.
Step2Check_ConsumesFirst(r) ==
    /\ reqs[r].kind = "step2" /\ reqs[r].pc = "check"
    /\ LET q == reqs[r]
           mfaCode == IF q.user.exists /\ q.user.enabled
                      THEN CacheGet(cache, q.user.handle) ELSE Miss
           v == Step2Verdict(q, mfaCode)
           seen == [q EXCEPT !.mfaCode = mfaCode] IN
       IF Rejects(recoverLimiter, q.ip, RecoverPoints)
       THEN /\ reqs' = [reqs EXCEPT ![r] =
                          Respond(seen, 429, "Too many attempts. Try again later or contact your admin.")]
            /\ UNCHANGED recoverLimiter
       ELSE /\ recoverLimiter' = consume(recoverLimiter, q.ip, RecoverDuration)
            /\ IF v = "404"
               THEN reqs' = [reqs EXCEPT ![r] = Respond(seen, 404, "User not found")]
               ELSE IF v = "403"
               THEN reqs' = [reqs EXCEPT ![r] = Respond(seen, 403, "User is disabled")]
               ELSE IF v = "mismatch"
               THEN reqs' = [reqs EXCEPT ![r] = Respond(seen, 403, "Incorrect code")]
               ELSE \E salt \in Salts :
                       reqs' = [reqs EXCEPT ![r] =
                                  [seen EXCEPT !.user = WithPassword(q.user, q.password, salt),
                                               !.pc = "write"]]
    /\ UNCHANGED <<store, cache, loginLimiter, challenges, attempts>>

\* The checks on the record read, the cache lookup and the comparison; on a
\* mismatch `await recoverLimiter.consume(ip)` and the answer.
Step2Check(r) ==
    /\ reqs[r].kind = "step2" /\ reqs[r].pc = "check"
    /\ LET q == reqs[r]
           mfaCode == IF q.user.exists /\ q.user.enabled
                      THEN CacheGet(cache, q.user.handle) ELSE Miss
           v == Step2Verdict(q, mfaCode)
           seen == [q EXCEPT !.mfaCode = mfaCode] IN
       IF v = "404"
       THEN /\ reqs' = [reqs EXCEPT ![r] = Respond(seen, 404, "User not found")]
            /\ UNCHANGED recoverLimiter
       ELSE IF v = "403"
       THEN /\ reqs' = [reqs EXCEPT ![r] = Respond(seen, 403, "User is disabled")]
            /\ UNCHANGED recoverLimiter
       ELSE IF v = "mismatch"
       THEN IF Rejects(recoverLimiter, q.ip, RecoverPoints)
            THEN /\ reqs' = [reqs EXCEPT ![r] =
                               Respond(seen, 429, "Too many attempts. Try again later or contact your admin.")]
                 /\ UNCHANGED recoverLimiter
            ELSE /\ reqs' = [reqs EXCEPT ![r] = Respond(seen, 403, "Incorrect code")]
                 /\ recoverLimiter' = consume(recoverLimiter, q.ip, RecoverDuration)
       ELSE /\ \E salt \in Salts :
                 reqs' = [reqs EXCEPT ![r] =
                            [seen EXCEPT !.user = WithPassword(q.user, q.password, salt),
                                         !.pc = "write"]]
            /\ UNCHANGED recoverLimiter
    /\ UNCHANGED <<store, cache, loginLimiter, challenges, attempts>>

\* `await storage.setItem(toKey(user.handle), user)`: the whole record.
Step2Write(r) ==
    /\ reqs[r].kind = "step2" /\ reqs[r].pc = "write"
    /\ store' = [store EXCEPT ![toKey(reqs[r].user.handle)] = reqs[r].user]
    /\ reqs' = [reqs EXCEPT ![r].pc = "reset"]
    /\ UNCHANGED <<cache, loginLimiter, recoverLimiter, challenges, attempts>>

\* Mutant: the buckets of all addresses are forgotten.
Step2Reset_ResetsAll(r) ==
    /\ reqs[r].kind = "step2" /\ reqs[r].pc = "reset"
    /\ recoverLimiter' = [ip \in IPs |-> NoBucket]
    /\ reqs' = [reqs EXCEPT ![r].pc = "remove"]
    /\ UNCHANGED <<store, cache, loginLimiter, challenges, attempts>>

\* `await recoverLimiter.delete(ip)`.
Step2Reset(r) ==
    /\ reqs[r].kind = "step2" /\ reqs[r].pc = "reset"
    /\ recoverLimiter' = delete(recoverLimiter, reqs[r].ip)
    /\ reqs' = [reqs EXCEPT ![r].pc = "remove"]
    /\ UNCHANGED <<store, cache, loginLimiter, challenges, attempts>>

\* Mutant: the verified challenge stays in the cache.
Step2Remove_KeepsChallenge(r) ==
    /\ reqs[r].kind = "step2" /\ reqs[r].pc = "remove"
    /\ reqs' = [reqs EXCEPT ![r] = Respond(reqs[r], 204, "")]
    /\ challenges' = Verified(reqs[r].user.handle)
    /\ UNCHANGED <<store, cache, loginLimiter, recoverLimiter, attempts>>

\* MFA_CACHE.remove(user.handle) and the answer.
Step2Remove(r) ==
    /\ reqs[r].kind = "step2" /\ reqs[r].pc = "remove"
    /\ cache' = CacheRemove(cache, reqs[r].user.handle)
    /\ reqs' = [reqs EXCEPT ![r] = Respond(reqs[r], 204, "")]
    /\ challenges' = Verified(reqs[r].user.handle)
    /\ UNCHANGED <<store, loginLimiter, recoverLimiter, attempts>>

----------------------------------------------------------------------------
(* router.post('/create') *)

\* lodash.kebabCase(String(request.body.handle).toLowerCase().trim()) on the
\* spellings of RawHandles: lower case, blanks trimmed, nothing left of a
\* text without letters or digits.
kebabCase(raw) ==
    CASE raw = "Alice" -> "alice"
      [] raw = " Bob " -> "bob"
      [] raw = "!!!" -> ""
      [] OTHER -> raw

\* The body's fields are checked, up to `await getAllUserHandles()`.
CreateStart(r, ip, handle, name, password) ==
    /\ Free(r)
    /\ LET q == [Arrive("create", ip, handle, Missing, password) EXCEPT !.name = name] IN
       IF Falsy(handle) \/ Falsy(name)
       THEN reqs' = [reqs EXCEPT ![r] = Respond(q, 400, "Missing required fields")]
       ELSE reqs' = [reqs EXCEPT ![r] = [q EXCEPT !.pc = "scan"]]
    /\ UNCHANGED <<store, cache, loginLimiter, recoverLimiter, challenges, attempts>>

\* `await getAllUserHandles()`.
CreateScan(r) ==
    /\ reqs[r].kind = "create" /\ reqs[r].pc = "scan"
    /\ reqs' = [reqs EXCEPT ![r].handles = getAllUserHandles, ![r].pc = "check"]
    /\ UNCHANGED <<store, cache, loginLimiter, recoverLimiter, challenges, attempts>>

\* Mutant: the first two accounts are administrators.
isFirstUser_UpToOne(handles) == Cardinality(handles) <= 1

\* handles.length === 0
isFirstUser(handles) == handles = {}

\* Mutant: the scan is searched for the handle as the body spells it.
AlreadyExists_AsSpelled(q, handle) == q.handle \in q.handles

\* handles.some(x => x === handle)
AlreadyExists(q, handle) == handle \in q.handles

\* The record create builds: enabled, with a salt always and a hash when a
\* password was supplied.
NewUser(handle, name, created, password, salt, admin) ==
    [exists |-> TRUE, handle |-> handle, name |-> name, created |-> created,
     password |-> IF Falsy(password) THEN EmptyHash ELSE getPasswordHash(password, salt),
     salt |-> salt, admin |-> admin, enabled |-> TRUE]

\* The handle is normalized and looked for in the scan; the record is built.
CreateCheck(r) ==
    /\ reqs[r].kind = "create" /\ reqs[r].pc = "check"
    /\ LET q == reqs[r]
           handle == kebabCase(q.handle) IN
       IF handle = ""
       THEN reqs' = [reqs EXCEPT ![r] = Respond(q, 400, "Invalid handle")]
       ELSE IF AlreadyExists(q, handle)
       THEN reqs' = [reqs EXCEPT ![r] = Respond(q, 409, "User already exists")]
       ELSE \E salt \in Salts, created \in Times :
               reqs' = [reqs EXCEPT ![r] =
                          [q EXCEPT !.user = NewUser(handle, q.name, created, q.password,
                                                     salt, isFirstUser(q.handles)),
                                    !.pc = "write"]]
    /\ UNCHANGED <<store, cache, loginLimiter, recoverLimiter, challenges, attempts>>

\* `await storage.setItem(toKey(handle), newUser)`: the write takes effect
\* while the handler waits.
CreateWrite(r) ==
    /\ reqs[r].kind = "create" /\ reqs[r].pc = "write"
    /\ store' = [store EXCEPT ![toKey(reqs[r].user.handle)] = reqs[r].user]
    /\ reqs' = [reqs EXCEPT ![r].pc = "dirs"]
    /\ UNCHANGED <<cache, loginLimiter, recoverLimiter, challenges, attempts>>

\* The data directories are made (two awaits on the file system, which is
\* not part of the state) and the handle is sent back.
CreateDone(r) ==
    /\ reqs[r].kind = "create" /\ reqs[r].pc = "dirs"
    /\ reqs' = [reqs EXCEPT ![r] = Respond(reqs[r], 200, "")]
    /\ UNCHANGED <<store, cache, loginLimiter, recoverLimiter, challenges, attempts>>

----------------------------------------------------------------------------
(* Account listing (users-admin.js /get, users-public.js /list, /count)    *)

DISCREET_LOGIN == FALSE

\* DEFAULT_USER (src/constants.js): the fallback account.
DEFAULT_USER == [handle |-> "default-user", name |-> "User"]

\* The accounts the administration endpoints are exercised with, and the
\* order in which storage.values() enumerates their records.
AdminHandles == {DEFAULT_USER.handle, "alice", "bob"}
StorageOrder == <<toKey("bob"), toKey(DEFAULT_USER.handle), toKey("alice")>>

\* storage.values(x => x.key.startsWith(KEY_PREFIX)): the records, in
\* storage order.
values(st) ==
    LET ks == SelectSeq(StorageOrder, LAMBDA k : st[k].exists) IN
    [i \in 1..Len(ks) |-> st[ks[i]]]

\* The characters of the strings that occur as name, handle or search query.
Chars(s) ==
    CASE s = "" -> <<>>
      [] s = "default-user" -> <<"d","e","f","a","u","l","t","-","u","s","e","r">>
      [] s = "User" -> <<"U","s","e","r">>
      [] s = "alice" -> <<"a","l","i","c","e">>
      [] s = "Anna" -> <<"A","n","n","a">>
      [] s = "bob" -> <<"b","o","b">>
      [] s = "Bob" -> <<"B","o","b">>
      [] s = "A" -> <<"A">>
      [] s = "B" -> <<"B">>
      [] s = "li" -> <<"l","i">>
      [] s = "zz" -> <<"z","z">>

\* String.prototype.toLowerCase, character by character.
toLowerCase(s) ==
    [i \in 1..Len(s) |->
        CASE s[i] = "A" -> "a"
          [] s[i] = "B" -> "b"
          [] s[i] = "U" -> "u"
          [] OTHER -> s[i]]

\* String.prototype.includes: needle occurs in hay as a substring.
includes(hay, needle) ==
    \E i \in 0..(Len(hay) - Len(needle)) : SubSeq(hay, i + 1, i + Len(needle)) = needle

\* parseInt of a body field: <<n>> for a number, <<>> for NaN.
parseInt(x) ==
    CASE x = "0" -> <<0>>
      [] x = "1" -> <<1>>
      [] x = "2" -> <<2>>
      [] x = "3" -> <<3>>
      [] x = "-1" -> <<-1>>
      [] OTHER -> <<>>

\* parseInt(x) || fallback
ParseOr(x, fallback) ==
    IF parseInt(x) = <<>> \/ parseInt(x)[1] = 0 THEN fallback ELSE parseInt(x)[1]

\* getUserAvatar(handle) (src/users.js): a data URL or a fallback path.
getUserAvatar(handle) == <<"avatar", handle>>

\* Mutant: the view model carries the stored salt as well.
ViewModel_CarriesSalt(user) ==
    [handle |-> user.handle, name |-> user.name, avatar |-> getUserAvatar(user.handle),
     admin |-> user.admin, enabled |-> user.enabled, created |-> user.created,
     password |-> user.password # EmptyHash, salt |-> user.salt]

\* The view model of a record.
ViewModel(user) ==
    [handle |-> user.handle, name |-> user.name, avatar |-> getUserAvatar(user.handle),
     admin |-> user.admin, enabled |-> user.enabled, created |-> user.created,
     password |-> user.password # EmptyHash]

\* Array.prototype.sort by (x.created ?? 0) - (y.created ?? 0): stable, so
\* records created at the same time keep their storage order.
RECURSIVE sortByCreated(_)
sortByCreated(s) ==
    IF s = <<>> THEN <<>>
    ELSE LET x == s[Len(s)]
             t == sortByCreated(SubSeq(s, 1, Len(s) - 1))
             n == Cardinality({i \in 1..Len(t) : t[i].created <= x.created}) IN
         SubSeq(t, 1, n) \o <<x>> \o SubSeq(t, n + 1, Len(t))

\* Mutant: name and handle are searched as they are spelled.
Matches_CaseSensitive(user, searchQuery) ==
    \/ includes(Chars(user.name), Chars(searchQuery))
    \/ includes(Chars(user.handle), Chars(searchQuery))

\* The search filter on one view model.
Matches(user, searchQuery) ==
    \/ includes(toLowerCase(Chars(user.name)), toLowerCase(Chars(searchQuery)))
    \/ includes(toLowerCase(Chars(user.handle)), toLowerCase(Chars(searchQuery)))

\* searchQuery ? viewModels.filter(...) : viewModels
filterUsers(viewModels, searchQuery) ==
    IF Falsy(searchQuery) THEN viewModels
    ELSE SelectSeq(viewModels, LAMBDA user : Matches(user, searchQuery))

\* Array.prototype.slice(start, end)
slice(s, start, end) ==
    LET from == IF start < 0 THEN (IF Len(s) + start < 0 THEN 0 ELSE Len(s) + start)
                ELSE Min(start, Len(s))
        to == IF end < 0 THEN (IF Len(s) + end < 0 THEN 0 ELSE Len(s) + end)
              ELSE Min(end, Len(s)) IN
    SubSeq(s, from + 1, to)

\* Mutant: the page starts one entry late.
PageOf_StartsLate(filteredUsers, page, pageSize) ==
    slice(filteredUsers, (page - 1) * pageSize + 1, (page - 1) * pageSize + 1 + pageSize)

\* The entries of one page.
PageOf(filteredUsers, page, pageSize) ==
    slice(filteredUsers, (page - 1) * pageSize, (page - 1) * pageSize + pageSize)

\* Math.ceil(a / b), b not 0
ceil(a, b) ==
    IF b > 0 THEN (a + b - 1) \div b
    ELSE -(a \div (-b))

\* /get: the body's fields are read, up to `await storage.values(...)`.
GetStart(r, caller, page, pageSize, searchQuery) ==
    /\ Free(r)
    /\ reqs' = [reqs EXCEPT ![r] =
                  [Arrive("get", "", Missing, Missing, Missing) EXCEPT
                      !.caller = caller, !.page = page, !.pageSize = pageSize,
                      !.searchQuery = searchQuery, !.pc = "values"]]
    /\ UNCHANGED <<store, cache, loginLimiter, recoverLimiter, challenges, attempts>>

\* storage.values(...) answers; the handler waits for the avatars.
GetValues(r) ==
    /\ reqs[r].kind = "get" /\ reqs[r].pc = "values"
    /\ reqs' = [reqs EXCEPT ![r].users = values(store), ![r].pc = "avatars"]
    /\ UNCHANGED <<store, cache, loginLimiter, recoverLimiter, challenges, attempts>>

\* The view models are sorted, filtered and cut to the page.
GetDone(r) ==
    /\ reqs[r].kind = "get" /\ reqs[r].pc = "avatars"
    /\ LET q == reqs[r]
           page == ParseOr(q.page, 1)
           pageSize == ParseOr(q.pageSize, 20)
           viewModels == sortByCreated([i \in 1..Len(q.users) |-> ViewModel(q.users[i])])
           filteredUsers == filterUsers(viewModels, q.searchQuery) IN
       reqs' = [reqs EXCEPT ![r] =
                  [Respond(q, 200, "") EXCEPT !.body =
                      [users |-> PageOf(filteredUsers, page, pageSize),
                       total |-> Len(filteredUsers),
                       page |-> page,
                       pageSize |-> pageSize,
                       totalPages |-> ceil(Len(filteredUsers), pageSize)]]]
    /\ UNCHANGED <<store, cache, loginLimiter, recoverLimiter, challenges, attempts>>

\* /list and /count, up to `await storage.values(...)`.
ListStart(r, kind) ==
    /\ Free(r)
    /\ kind \in {"list", "count"}
    /\ LET q == Arrive(kind, "", Missing, Missing, Missing) IN
       IF DISCREET_LOGIN
       THEN reqs' = [reqs EXCEPT ![r] = Respond(q, 204, "")]
       ELSE reqs' = [reqs EXCEPT ![r] = [q EXCEPT !.pc = "values"]]
    /\ UNCHANGED <<store, cache, loginLimiter, recoverLimiter, challenges, attempts>>

\* The number of accounts and of enabled accounts is sent back.
ListDone(r) ==
    /\ reqs[r].kind \in {"list", "count"} /\ reqs[r].pc = "values"
    /\ LET users == values(store)
           enabledUsers == SelectSeq(users, LAMBDA user : user.enabled) IN
       reqs' = [reqs EXCEPT ![r] =
                  [Respond(reqs[r], 200, "") EXCEPT !.body =
                      [total |-> Len(users), enabled |-> Len(enabledUsers)]]]
    /\ UNCHANGED <<store, cache, loginLimiter, recoverLimiter, challenges, attempts>>

----------------------------------------------------------------------------
(* Account administration (users-admin.js)                                 *)

FlagOps == {"disable", "enable", "promote", "demote"}

\* Mutant: demote does not compare the handle with the caller's.
RefusesSelf_NotDemote(kind, handle, caller) ==
    kind \in {"disable", "delete"} /\ handle = caller

\* Mutant: only delete refuses the caller's own handle.
RefusesSelf_OnlyDelete(kind, handle, caller) == kind = "delete" /\ handle = caller

\* request.body.handle === request.user.profile.handle, in the handlers that
\* make the comparison.
RefusesSelf(kind, handle, caller) ==
    kind \in {"disable", "demote", "delete"} /\ handle = caller

\* Mutant: no handle is the fallback account's.
IsDefaultUser_Never(handle) == FALSE

\* request.body.handle === DEFAULT_USER.handle
IsDefaultUser(handle) == handle = DEFAULT_USER.handle

SelfError(kind) ==
    CASE kind = "disable" -> "Cannot disable yourself"
      [] kind = "demote" -> "Cannot demote yourself"
      [] kind = "delete" -> "Cannot delete yourself"

\* Mutant: enable and disable flip the field.
ApplyFlag_Toggles(kind, user) ==
    CASE kind = "disable" -> [user EXCEPT !.enabled = ~@]
      [] kind = "enable" -> [user EXCEPT !.enabled = ~@]
      [] kind = "promote" -> [user EXCEPT !.admin = TRUE]
      [] kind = "demote" -> [user EXCEPT !.admin = FALSE]

\* The field an operation sets.
ApplyFlag(kind, user) ==
    CASE kind = "disable" -> [user EXCEPT !.enabled = FALSE]
      [] kind = "enable" -> [user EXCEPT !.enabled = TRUE]
      [] kind = "promote" -> [user EXCEPT !.admin = TRUE]
      [] kind = "demote" -> [user EXCEPT !.admin = FALSE]

\* /disable, /enable, /promote, /demote: the checks before the lookup.
AdminStart(r, kind, caller, handle) ==
    /\ Free(r)
    /\ kind \in FlagOps
    /\ LET q == [Arrive(kind, "", handle, Missing, Missing) EXCEPT !.caller = caller] IN
       IF Falsy(handle)
       THEN reqs' = [reqs EXCEPT ![r] = Respond(q, 400, "Missing required fields")]
       ELSE IF RefusesSelf(kind, handle, caller)
       THEN reqs' = [reqs EXCEPT ![r] = Respond(q, 400, SelfError(kind))]
       ELSE reqs' = [reqs EXCEPT ![r] = [q EXCEPT !.pc = "read"]]
    /\ UNCHANGED <<store, cache, loginLimiter, recoverLimiter, challenges, attempts>>

\* `await storage.getItem(toKey(handle))` answers; the field is set on the
\* record read.
AdminRead(r) ==
    /\ reqs[r].kind \in FlagOps /\ reqs[r].pc = "read"
    /\ LET q == reqs[r]
           user == getItem(toKey(q.handle)) IN
       IF ~user.exists
       THEN reqs' = [reqs EXCEPT ![r] = Respond(q, 404, "User not found")]
       ELSE reqs' = [reqs EXCEPT ![r] =
                       [q EXCEPT !.user = ApplyFlag(q.kind, user), !.pc = "write"]]
    /\ UNCHANGED <<store, cache, loginLimiter, recoverLimiter, challenges, attempts>>

\* Mutant: the store is put back as the request found it, but for the record
\* it names.
AdminWrite_WritesSnapshot(r) ==
    /\ reqs[r].kind \in FlagOps /\ reqs[r].pc = "write"
    /\ store' = [reqs[r].before EXCEPT ![toKey(reqs[r].handle)] = reqs[r].user]
    /\ reqs' = [reqs EXCEPT ![r].pc = "written"]
    /\ UNCHANGED <<cache, loginLimiter, recoverLimiter, challenges, attempts>>

\* `await storage.setItem(toKey(handle), user)` takes effect.
AdminWrite(r) ==
    /\ reqs[r].kind \in FlagOps /\ reqs[r].pc = "write"
    /\ store' = [store EXCEPT ![toKey(reqs[r].handle)] = reqs[r].user]
    /\ reqs' = [reqs EXCEPT ![r].pc = "written"]
    /\ UNCHANGED <<cache, loginLimiter, recoverLimiter, challenges, attempts>>

AdminDone(r) ==
    /\ reqs[r].kind \in FlagOps /\ reqs[r].pc = "written"
    /\ reqs' = [reqs EXCEPT ![r] = Respond(reqs[r], 204, "")]
    /\ UNCHANGED <<store, cache, loginLimiter, recoverLimiter, challenges, attempts>>

\* /delete: the checks before `await storage.removeItem(...)`.
DeleteStart(r, caller, handle, purge) ==
    /\ Free(r)
    /\ LET q == [Arrive("delete", "", handle, Missing, Missing) EXCEPT
                    !.caller = caller, !.purge = purge] IN
       IF Falsy(handle)
       THEN reqs' = [reqs EXCEPT ![r] = Respond(q, 400, "Missing required fields")]
       ELSE IF RefusesSelf("delete", handle, caller)
       THEN reqs' = [reqs EXCEPT ![r] = Respond(q, 400, SelfError("delete"))]
       ELSE IF IsDefaultUser(handle)
       THEN reqs' = [reqs EXCEPT ![r] =
                       Respond(q, 400, "Sorry, but the default user cannot be deleted. It is required as a fallback.")]
       ELSE reqs' = [reqs EXCEPT ![r] = [q EXCEPT !.pc = "remove"]]
    /\ UNCHANGED <<store, cache, loginLimiter, recoverLimiter, challenges, attempts>>

\* `await storage.removeItem(toKey(handle))` takes effect, whether or not
\* there was a record.
DeleteRemove(r) ==
    /\ reqs[r].kind = "delete" /\ reqs[r].pc = "remove"
    /\ store' = [store EXCEPT ![toKey(reqs[r].handle)] = NoUser]
    /\ reqs' = [reqs EXCEPT ![r].pc = "purge"]
    /\ UNCHANGED <<cache, loginLimiter, recoverLimiter, challenges, attempts>>

\* With purge the data directories are removed (the file system is not part
\* of the state); 204 is sent.
DeleteDone(r) ==
    /\ reqs[r].kind = "delete" /\ reqs[r].pc = "purge"
    /\ reqs' = [reqs EXCEPT ![r] = Respond(reqs[r], 204, "")]
    /\ UNCHANGED <<store, cache, loginLimiter, recoverLimiter, challenges, attempts>>

----------------------------------------------------------------------------
(* Time *)

\* d seconds pass.  A login window that runs out ends the count of the
\* failures in it.
Elapse(d) ==
    /\ loginLimiter' = AgeLimiter(loginLimiter, d)
    /\ recoverLimiter' = AgeLimiter(recoverLimiter, d)
    /\ cache' = AgeCache(cache, d)
    /\ attempts' = [ip \in IPs |->
                      IF loginLimiter'[ip] = NoBucket
                      THEN [attempts[ip] EXCEPT !.failed = 0]
                      ELSE attempts[ip]]
    /\ reqs' = [r \in Reqs |->
                  IF /\ reqs[r].kind = "login" /\ reqs[r].pc \in {"read", "check"}
                     /\ loginLimiter'[reqs[r].ip] = NoBucket
                  THEN [reqs[r] EXCEPT !.stale = TRUE]
                  ELSE reqs[r]]
    /\ UNCHANGED <<store, challenges>>

----------------------------------------------------------------------------
(* Initial states *)

\* alice created first with a password; bob created later.
Alice == User("alice", getPasswordHash("pw1", "s1"), "s1", TRUE, TRUE)
Bob(password, enabled) ==
    User("bob", IF password = "" THEN EmptyHash ELSE getPasswordHash(password, "s2"),
         "s2", FALSE, enabled)

StoreOf(bob) ==
    [k \in Keys |->
        IF k = toKey("alice") THEN Alice
        ELSE IF k = toKey("bob") THEN bob
        ELSE NoUser]

InitRest ==
    /\ cache = [h \in Handles |-> NoEntry]
    /\ loginLimiter = [ip \in IPs |-> NoBucket]
    /\ recoverLimiter = [ip \in IPs |-> NoBucket]
    /\ reqs = [r \in Reqs |-> Idle]
    /\ challenges = [h \in Handles |-> NoChallenge]
    /\ attempts = [ip \in IPs |-> NoAttempts]

\* Login: bob with or without a password, enabled or disabled.
InitLogin ==
    /\ \E p \in {"", "pw2"}, e \in BOOLEAN : store = StoreOf(Bob(p, e))
    /\ InitRest

\* The login requests come from one address.
LoginIPs == {"10.0.0.1"}

NextLogin ==
    \/ \E ip \in LoginIPs, h \in Handles \cup {Missing}, p \in Passwords \cup {Missing} :
          LoginStart(1, ip, h, p)
    \/ LoginRead(1)
    \/ LoginCheck(1)
    \/ Elapse(LoginTick)

SpecLogin == InitLogin /\ [][NextLogin]_vars

\* Recovery: bob is disabled, carol has no record.
InitRecover ==
    /\ store = StoreOf(Bob("pw2", FALSE))
    /\ InitRest

\* The recovery requests come from one address and carry no new password,
\* an empty one or "pw2".
RecoverIPs == {"10.0.0.1"}
NewPasswords == {Missing, "", "pw2"}

Step1Steps(r, handles) ==
    \/ \E ip \in RecoverIPs, h \in handles : Step1Start(r, ip, h)
    \/ Step1Read(r)
    \/ Step1Issue(r)

Step2Steps(r, handles, codes, passwords) ==
    \/ \E ip \in RecoverIPs, h \in handles, c \in codes, p \in passwords :
          Step2Start(r, ip, h, c, p)
    \/ Step2Read(r)
    \/ Step2Check(r)
    \/ Step2Write(r)
    \/ Step2Reset(r)
    \/ Step2Remove(r)

\* One request at a time.
Next ==
    \/ Step1Steps(1, Handles \cup {Missing})
    \/ Step2Steps(1, Handles \cup {Missing}, Codes \cup {Missing}, NewPasswords)
    \/ Elapse(RecoverTick)

Spec == InitRecover /\ [][Next]_vars

\* Challenges issued for alice, and recover-step2 requests for alice in
\* every slot, their steps interleaved.
NextConc ==
    \/ Step1Steps(1, {"alice"})
    \/ \E r \in Reqs : Step2Steps(r, {"alice"}, Codes, {"pw2"})

SpecConc == InitRecover /\ [][NextConc]_vars

\* Recovery of alice in slot 1 and logins for alice in slot 2, one request
\* at a time.  The recover-step2 requests carry one code, which the code
\* issued may or may not equal.
AfterCodes == {"1000"}
AfterPasswords == {"pw1", "pw2", Missing}

NextAfter ==
    \/ /\ Free(2)
       /\ \E ip \in RecoverIPs : Step1Start(1, ip, "alice")
    \/ Step1Read(1)
    \/ Step1Issue(1)
    \/ /\ Free(2)
       /\ \E ip \in RecoverIPs, c \in AfterCodes, p \in NewPasswords :
             Step2Start(1, ip, "alice", c, p)
    \/ Step2Read(1)
    \/ Step2Check(1)
    \/ Step2Write(1)
    \/ Step2Reset(1)
    \/ Step2Remove(1)
    \/ /\ Free(1)
       /\ \E ip \in LoginIPs, p \in AfterPasswords : LoginStart(2, ip, "alice", p)
    \/ LoginRead(2)
    \/ LoginCheck(2)

SpecAfter == InitRecover /\ [][NextAfter]_vars

\* Recovery of alice from every address, one request at a time.
NextAddr ==
    \/ \E ip \in IPs : Step1Start(1, ip, "alice")
    \/ Step1Read(1)
    \/ Step1Issue(1)
    \/ \E ip \in IPs, c \in Codes : Step2Start(1, ip, "alice", c, "pw2")
    \/ Step2Read(1)
    \/ Step2Check(1)
    \/ Step2Write(1)
    \/ Step2Reset(1)
    \/ Step2Remove(1)
    \/ Elapse(RecoverTick)

SpecAddr == InitRecover /\ [][NextAddr]_vars

\* Account creation on a store without accounts.
InitCreate ==
    /\ store = [k \in Keys |-> NoUser]
    /\ InitRest

CreateSteps(r, handles, passwords) ==
    \/ \E ip \in LoginIPs, h \in handles, n \in Names \cup {Missing}, p \in passwords :
          CreateStart(r, ip, h, n, p)
    \/ CreateScan(r)
    \/ CreateCheck(r)
    \/ CreateWrite(r)
    \/ CreateDone(r)

\* One create request at a time.
NextCreate == CreateSteps(1, RawHandles \cup {Missing}, {Missing, "pw1"})

SpecCreate == InitCreate /\ [][NextCreate]_vars

\* Create requests in every slot, their steps interleaved.
NextCreateConc == \E r \in Reqs : CreateSteps(r, {"alice", " Bob "}, {"pw1"})

SpecCreateConc == InitCreate /\ [][NextCreateConc]_vars

\* The listing endpoints on a store drawn from: the fallback account, alice
\* with or without a password and bob enabled or disabled, each of the two
\* present or not, with creation times that agree with the storage order,
\* reverse it, or tie.
AdminKeys == {toKey(h) : h \in AdminHandles}

Account(handle, name, created, password, admin, enabled) ==
    [User(handle, password, IF password = EmptyHash THEN "" ELSE "s1", admin, enabled)
        EXCEPT !.name = name, !.created = created]

InitList ==
    /\ \E dc \in {0, 2}, ac \in Times, bc \in Times, ap \in {"", "pw1"},
          be \in BOOLEAN, present \in SUBSET {"alice", "bob"} :
          store = [k \in AdminKeys |->
                     CASE k = toKey(DEFAULT_USER.handle) ->
                              Account(DEFAULT_USER.handle, DEFAULT_USER.name, dc,
                                      getPasswordHash("pw1", "s1"), TRUE, TRUE)
                       [] k = toKey("alice") /\ "alice" \in present ->
                              Account("alice", "Anna", ac,
                                      IF ap = "" THEN EmptyHash ELSE getPasswordHash(ap, "s1"),
                                      FALSE, TRUE)
                       [] k = toKey("bob") /\ "bob" \in present ->
                              Account("bob", "Bob", bc, getPasswordHash("pw2", "s1"),
                                      FALSE, be)
                       [] OTHER -> NoUser]
    /\ InitRest

PageInputs == {Missing, "0", "1", "2", "3", "x", "-1"}
PageSizeInputs == {Missing, "0", "1", "2", "-1"}
SearchQueries == {Missing, "", "A", "B", "li", "zz"}

NextList ==
    \/ \E p \in PageInputs, ps \in PageSizeInputs, sq \in SearchQueries :
          GetStart(1, DEFAULT_USER.handle, p, ps, sq)
    \/ GetValues(1)
    \/ GetDone(1)
    \/ \E kind \in {"list", "count"} : ListStart(1, kind)
    \/ ListDone(1)

SpecList == InitList /\ [][NextList]_vars

\* Administration, one request at a time, on a store that holds the three
\* accounts; the caller is any of them.
InitAdmin ==
    /\ store = [k \in AdminKeys |->
                  CASE k = toKey(DEFAULT_USER.handle) ->
                           Account(DEFAULT_USER.handle, DEFAULT_USER.name, 0,
                                   getPasswordHash("pw1", "s1"), TRUE, TRUE)
                    [] k = toKey("alice") ->
                           Account("alice", "Anna", 1, getPasswordHash("pw1", "s1"), TRUE, TRUE)
                    [] k = toKey("bob") ->
                           Account("bob", "Bob", 2, EmptyHash, FALSE, TRUE)]
    /\ InitRest

NextAdmin ==
    \/ \E kind \in FlagOps, caller \in AdminHandles, h \in AdminHandles \cup {Missing} :
          AdminStart(1, kind, caller, h)
    \/ AdminRead(1)
    \/ AdminWrite(1)
    \/ AdminDone(1)
    \/ \E caller \in AdminHandles, h \in AdminHandles \cup {Missing}, purge \in BOOLEAN :
          DeleteStart(1, caller, h, purge)
    \/ DeleteRemove(1)
    \/ DeleteDone(1)

SpecAdmin == InitAdmin /\ [][NextAdmin]_vars

\* Login and recovery from two addresses, one request at a time, with no
\* time passing: alice has the password "pw1", carol has no record.  The
\* second address asks for carol only.
OtherIPs == IPs \ LoginIPs

NextMix ==
    \/ \E ip \in LoginIPs, h \in {"alice", "carol"} : LoginStart(1, ip, h, "pw1")
    \/ \E ip \in OtherIPs : LoginStart(1, ip, "carol", "pw1")
    \/ LoginRead(1)
    \/ LoginCheck(1)
    \/ \E ip \in RecoverIPs : Step1Start(1, ip, "alice")
    \/ \E ip \in OtherIPs : Step1Start(1, ip, "carol")
    \/ Step1Read(1)
    \/ Step1Issue(1)
    \/ \E ip \in RecoverIPs : Step2Start(1, ip, "alice", "1000", Missing)
    \/ Step2Read(1)
    \/ Step2Check(1)
    \/ Step2Write(1)
    \/ Step2Reset(1)
    \/ Step2Remove(1)

SpecMix == InitRecover /\ [][NextMix]_vars

\* Login and recovery from one address while time passes.
NextBudget ==
    \/ \E ip \in LoginIPs, h \in {"alice", "carol"} : LoginStart(1, ip, h, "pw1")
    \/ LoginRead(1)
    \/ LoginCheck(1)
    \/ \E ip \in RecoverIPs, h \in {"alice", "carol"} : Step1Start(1, ip, h)
    \/ Step1Read(1)
    \/ Step1Issue(1)
    \/ \E ip \in RecoverIPs : Step2Start(1, ip, "alice", "1000", Missing)
    \/ Step2Read(1)
    \/ Step2Check(1)
    \/ Step2Write(1)
    \/ Step2Reset(1)
    \/ Step2Remove(1)
    \/ Elapse(RecoverTick)

SpecBudget == InitRecover /\ [][NextBudget]_vars

\* Login and recovery from one address with no time passing, with bodies
\* that lack a field: alice is enabled, bob is disabled, carol has no record.
NextFields ==
    \/ \E ip \in LoginIPs, h \in {"carol", Missing} : LoginStart(1, ip, h, "pw1")
    \/ LoginRead(1)
    \/ LoginCheck(1)
    \/ \E ip \in RecoverIPs, h \in Handles \cup {Missing} : Step1Start(1, ip, h)
    \/ Step1Read(1)
    \/ Step1Issue(1)
    \/ \E ip \in RecoverIPs, h \in {"alice", Missing}, c \in {"1000", Missing} :
          Step2Start(1, ip, h, c, Missing)
    \/ Step2Read(1)
    \/ Step2Check(1)
    \/ Step2Write(1)
    \/ Step2Reset(1)
    \/ Step2Remove(1)

SpecFields == InitRecover /\ [][NextFields]_vars

\* Requests that cannot succeed, from one address, while time passes: login
\* and recover-step1 for carol, who has no record, and recover-step2 for
\* alice with a code when none was issued.  No handler deletes a bucket.
NextHeal ==
    \/ \E ip \in LoginIPs : LoginStart(1, ip, "carol", "pw1")
    \/ LoginRead(1)
    \/ LoginCheck(1)
    \/ \E ip \in RecoverIPs : Step1Start(1, ip, "carol")
    \/ Step1Read(1)
    \/ Step1Issue(1)
    \/ \E ip \in RecoverIPs : Step2Start(1, ip, "alice", "1000", Missing)
    \/ Step2Read(1)
    \/ Step2Check(1)
    \/ Elapse(LoginTick)

\* The clock does not stop.
SpecHeal == InitRecover /\ [][NextHeal]_vars /\ WF_vars(Elapse(LoginTick))

\* Recovery of alice with no time passing: challenges are issued and codes
\* are tried in slot 1; once a request has arrived in slot 2, codes are tried
\* there only.
NextRetry ==
    \/ /\ reqs[2].pc = "idle"
       /\ \E ip \in RecoverIPs : Step1Start(1, ip, "alice")
    \/ Step1Read(1)
    \/ Step1Issue(1)
    \/ /\ reqs[2].pc = "idle"
       /\ \E ip \in RecoverIPs, c \in Codes : Step2Start(1, ip, "alice", c, "pw2")
    \/ /\ Free(1)
       /\ \E ip \in RecoverIPs, c \in Codes : Step2Start(2, ip, "alice", c, "pw2")
    \/ \E r \in {1, 2} :
          \/ Step2Read(r)
          \/ Step2Check(r)
          \/ Step2Write(r)
          \/ Step2Reset(r)
          \/ Step2Remove(r)

SpecRetry == InitRecover /\ [][NextRetry]_vars

\* Requests on distinct handles, their steps interleaved: slot 1 holds the
\* administration of bob, slot 2 the recovery and the demotion of alice.
NextCross ==
    \/ \E kind \in FlagOps : AdminStart(1, kind, "alice", "bob")
    \/ AdminStart(2, "demote", "bob", "alice")
    \/ \E ip \in RecoverIPs : Step1Start(2, ip, "alice")
    \/ \E ip \in RecoverIPs : Step2Start(2, ip, "alice", "1000", "pw2")
    \/ \E r \in {1, 2} :
          \/ AdminRead(r)
          \/ AdminWrite(r)
          \/ AdminDone(r)
    \/ Step1Read(2)
    \/ Step1Issue(2)
    \/ Step2Read(2)
    \/ Step2Check(2)
    \/ Step2Write(2)
    \/ Step2Reset(2)
    \/ Step2Remove(2)

SpecCross == InitRecover /\ [][NextCross]_vars

\* Requests on one handle, their steps interleaved: slot 1 holds the
\* administration of alice (disable, enable, delete), slot 2 her recovery.
NextSame ==
    \/ \E kind \in {"disable", "enable"} : AdminStart(1, kind, "bob", "alice")
    \/ AdminRead(1)
    \/ AdminWrite(1)
    \/ AdminDone(1)
    \/ DeleteStart(1, "bob", "alice", FALSE)
    \/ DeleteRemove(1)
    \/ DeleteDone(1)
    \/ \E ip \in RecoverIPs : Step1Start(2, ip, "alice")
    \/ \E ip \in RecoverIPs : Step2Start(2, ip, "alice", "1000", "pw2")
    \/ Step1Read(2)
    \/ Step1Issue(2)
    \/ Step2Read(2)
    \/ Step2Check(2)
    \/ Step2Write(2)
    \/ Step2Reset(2)
    \/ Step2Remove(2)

SpecSame == InitRecover /\ [][NextSame]_vars

\* requireAdminMiddleware (src/users.js): the caller's account exists, is
\* enabled and is an administrator when the request arrives.
requireAdminMiddleware(caller) ==
    /\ store[toKey(caller)].exists
    /\ store[toKey(caller)].enabled
    /\ store[toKey(caller)].admin

\* Administration by administrators, one request at a time.
NextGuarded ==
    \/ \E kind \in FlagOps, caller \in AdminHandles, h \in AdminHandles :
          requireAdminMiddleware(caller) /\ AdminStart(1, kind, caller, h)
    \/ AdminRead(1)
    \/ AdminWrite(1)
    \/ AdminDone(1)
    \/ \E caller \in AdminHandles, h \in AdminHandles, purge \in BOOLEAN :
          requireAdminMiddleware(caller) /\ DeleteStart(1, caller, h, purge)
    \/ DeleteRemove(1)
    \/ DeleteDone(1)

SpecGuarded == InitAdmin /\ [][NextGuarded]_vars

----------------------------------------------------------------------------
(* Claims *)

\* A request arrives in slot r: the slot was free and now holds the request.
Arrives(r, kind) ==
    /\ Free(r)
    /\ reqs'[r] # reqs[r]
    /\ reqs'[r].kind = kind

\* The record the store holds for a body's handle.
Stored(handle) == IF handle \in Handles THEN store[toKey(handle)] ELSE NoUser

\* C1: once the recovery bucket of a source address has no points left, every
\* recover-step2 request from that address is answered 429, and none gets
\* past the comparison to change the password or to consume the challenge,
\* whatever code it carries.
C1_ExhaustedBucketRejectsStep2 ==
    [][\A r \in Reqs :
          LET q == reqs[r] IN
          (/\ q.kind = "step2" /\ q.pc = "check" /\ reqs'[r] # q
           /\ Rejects(recoverLimiter, q.ip, RecoverPoints))
          => (/\ reqs'[r].pc = "done" /\ reqs'[r].status = 429
              /\ store' = store /\ cache' = cache)]_vars

\* C2: a recover-step2 request that is not answered 204 leaves every record
\* of the store as it found it, and a store that differs from the one the
\* request found differs only in the record of the request's handle and only
\* after the supplied code equalled the unexpired code the cache held.
C2_FailedStep2LeavesStore ==
    \A r \in Reqs :
        LET q == reqs[r] IN
        q.kind = "step2" =>
            /\ (q.pc = "done" /\ q.status # 204) => store = q.before
            /\ store # q.before =>
                  /\ q.pc \in {"reset", "remove", "done"}
                  /\ q.mfaCode # Miss /\ q.code = q.mfaCode
                  /\ \A k \in Keys : k # toKey(q.handle) => store[k] = q.before[k]

\* A request with a wrong code was refused while a challenge was outstanding.
C2_Witness ==
    \E r \in Reqs :
        LET q == reqs[r] IN
        /\ q.kind = "step2" /\ q.pc = "done" /\ q.status = 403
        /\ q.error = "Incorrect code"
        /\ q.mfaCode \in Codes /\ q.code # q.mfaCode
        /\ store = q.before

\* C3: while a code is the code of the latest challenge of a handle and a
\* recover-step2 request has been answered 204 for it since it was issued, no
\* recover-step2 request for the handle with that code gets past the
\* comparison.
C3_VerifiedCodeIsSpent ==
    \A r \in Reqs :
        LET q == reqs[r] IN
        (/\ q.kind = "step2" /\ q.handle \in Handles
         /\ challenges[q.handle].wins >= 1
         /\ q.code = challenges[q.handle].issued)
        => q.pc \notin {"write", "reset", "remove"}

\* After a verification, a request with the verified code was refused.
C3_Witness ==
    \E r \in Reqs :
        LET q == reqs[r] IN
        /\ q.kind = "step2" /\ q.pc = "done" /\ q.status = 403
        /\ q.handle \in Handles
        /\ challenges[q.handle].wins = 1
        /\ q.code = challenges[q.handle].issued

\* C4: for each issued challenge at most one recover-step2 request is
\* answered 204, under every interleaving of the steps of two requests.
C4_AtMostOneWinner ==
    \A h \in Handles : challenges[h].wins <= 1

\* A completed recover-step2 request that carried the code which the latest
\* issuance for its handle replaced.
UsesSuperseded(q) ==
    /\ q.kind = "step2" /\ q.pc = "done"
    /\ q.handle \in Handles
    /\ q.code = challenges[q.handle].superseded

\* C5 as stated: after a second issuance replaced code c1 by c2, a
\* recover-step2 with c1 fails with bad-code and leaves the record unchanged.
C5_SupersededCodeIsBadCode ==
    \A r \in Reqs :
        UsesSuperseded(reqs[r]) =>
            /\ reqs[r].status = 403 /\ reqs[r].error = "Incorrect code"
            /\ store = reqs[r].before

\* C5 amended: after a second issuance replaced code c1 by c2, a
\* recover-step2 with c1 fails, with bad-code (403) or, when the address has
\* no recovery point left, rate-limited (429), and leaves the store
\* unchanged; a request with the outstanding code is never refused; and the
\* code outstanding for a handle is the latest one issued, never the one it
\* replaced.
C5_SupersededCodeFails ==
    /\ \A r \in Reqs :
          LET q == reqs[r] IN
          /\ UsesSuperseded(q) =>
                /\ \/ q.status = 403 /\ q.error = "Incorrect code"
                   \/ q.status = 429
                /\ store = q.before
          /\ ~(/\ q.kind = "step2" /\ q.pc = "done" /\ q.handle \in Handles
               /\ Stored(q.handle).exists /\ Stored(q.handle).enabled
               /\ q.code = CacheGet(cache, q.handle))
    /\ \A h \in Handles :
          /\ CacheGet(cache, h) \in {Miss, challenges[h].issued}
          /\ challenges[h].issued # Miss =>
                challenges[h].superseded # challenges[h].issued

\* The replaced code was refused as bad-code while the new one is outstanding.
C5_Witness ==
    \E r \in Reqs :
        /\ UsesSuperseded(reqs[r])
        /\ reqs[r].status = 403
        /\ CacheGet(cache, reqs[r].handle) = challenges[reqs[r].handle].issued

\* C6: a recover-step2 request whose comparison is made when the challenge
\* of its handle has run out fails, also with the code that was issued, and
\* does not change the store.
C6_ExpiredChallengeFails ==
    [][\A r \in Reqs :
          LET q == reqs[r] IN
          (/\ q.kind = "step2" /\ q.pc = "check" /\ reqs'[r] # q
           /\ cache[q.handle].left = 0
           /\ cache[q.handle].value = q.code)
          => (/\ reqs'[r].pc = "done" /\ reqs'[r].status \in {403, 429}
              /\ reqs'[r].mfaCode = Miss
              /\ store' = store)]_vars

\* The issued code was refused after its time had run out.
C6_Witness ==
    \E r \in Reqs :
        LET q == reqs[r] IN
        /\ q.kind = "step2" /\ q.pc = "done" /\ q.status = 403
        /\ q.handle \in Handles
        /\ cache[q.handle].left = 0
        /\ cache[q.handle].value = q.code
        /\ challenges[q.handle].issued = q.code
        /\ challenges[q.handle].wins = 0

\* C7: a login request is answered 200, or gets a session handle, only when
\* the record it read is the store's record for its handle, is enabled and
\* holds an empty hash or the hash of the supplied password under the stored
\* salt; the session is then bound to that handle.
C7_LoginSuccessOnlyIfValid ==
    \A r \in Reqs :
        LET q == reqs[r]
            u == q.user IN
        (q.kind = "login" /\ (q.status = 200 \/ q.session # "")) =>
            /\ q.pc = "done" /\ q.status = 200 /\ q.session = q.handle
            /\ u = Stored(q.handle)
            /\ u.exists /\ u.enabled
            /\ \/ u.password = EmptyHash
               \/ u.password = getPasswordHash(q.password, u.salt)

\* A login with the right password of an account that has one succeeded.
C7_Witness ==
    \E r \in Reqs :
        LET q == reqs[r] IN
        /\ q.kind = "login" /\ q.status = 200 /\ q.session = "alice"
        /\ Stored("alice").password = getPasswordHash(q.password, Stored("alice").salt)

\* C8: a login request that names a handle and is not rate-limited has
\* consumed one point of its address before the record is looked up; an
\* answer of 403 leaves the limiter as it is; and once five requests of an
\* address were answered 403 in one window the next one is answered 429.
C8_FailedLoginsUseUpBudget ==
    [][\A r \in Reqs :
          /\ (Arrives(r, "login") /\ ~Falsy(reqs'[r].handle)) =>
                LET ip == reqs'[r].ip IN
                /\ reqs'[r].status # 429 =>
                      /\ reqs'[r].pc = "read" /\ reqs'[r].user = NoUser
                      /\ Remaining(loginLimiter', ip, LoginPoints)
                            = Remaining(loginLimiter, ip, LoginPoints) - 1
                /\ attempts[ip].failed >= LoginPoints =>
                      reqs'[r].pc = "done" /\ reqs'[r].status = 429
          /\ (reqs[r].kind = "login" /\ reqs[r].pc = "check" /\ reqs'[r].status = 403) =>
                loginLimiter' = loginLimiter]_vars

\* After five failures a request for a handle without a record got 429.
C8_Witness ==
    \E r \in Reqs :
        LET q == reqs[r] IN
        /\ q.kind = "login" /\ q.pc = "done" /\ q.status = 429
        /\ q.handle \in Handles /\ ~Stored(q.handle).exists
        /\ attempts[q.ip].failed = LoginPoints

\* C9: a login answered 200 leaves the bucket of its address at the full
\* budget, and each of the first five login requests of the address after
\* that login is processed past the limiter.
C9_SuccessRestoresBudget ==
    [][\A r \in Reqs :
          /\ (reqs[r].kind = "login" /\ reqs[r].pc = "check" /\ reqs'[r].status = 200) =>
                Remaining(loginLimiter', reqs[r].ip, LoginPoints) = LoginPoints
          /\ (/\ Arrives(r, "login") /\ ~Falsy(reqs'[r].handle)
              /\ attempts[reqs'[r].ip].sinceSuccess \in 0..(LoginPoints - 1)) =>
                reqs'[r].pc = "read"]_vars

\* The fifth request after a successful login is past the limiter, the five
\* having used up one window's points.
C9_Witness ==
    \E r \in Reqs :
        LET q == reqs[r] IN
        /\ q.kind = "login" /\ q.pc = "read"
        /\ attempts[q.ip].sinceSuccess = LoginPoints
        /\ loginLimiter[q.ip].consumed = LoginPoints

\* C10: a login request for an enabled account with an empty stored hash
\* that is not rate-limited is answered 200 with the session bound to the
\* handle, whatever password it carries.
C10_PasswordlessLoginSucceeds ==
    \A r \in Reqs :
        LET q == reqs[r]
            u == Stored(q.handle) IN
        (/\ q.kind = "login" /\ q.pc = "done"
         /\ u.exists /\ u.enabled /\ u.password = EmptyHash
         /\ q.status # 429)
        => (q.status = 200 /\ q.session = q.handle)

\* A login without a password succeeded for a passwordless account.
C10_Witness ==
    \E r \in Reqs :
        LET q == reqs[r] IN
        /\ q.kind = "login" /\ q.status = 200 /\ q.password = Missing
        /\ Stored(q.handle).password = EmptyHash

C12_UnknownAndDisabledAre403 ==
    \A r \in Reqs :
        LET q == reqs[r] IN
        (/\ q.kind = "login" /\ q.pc = "done" /\ q.status \notin {400, 429}
         /\ (~Stored(q.handle).exists \/ ~Stored(q.handle).enabled))
        => q.status = 403

\* A login for the disabled account was answered 403.
C12_Witness ==
    \E r \in Reqs :
        LET q == reqs[r] IN
        /\ q.kind = "login" /\ q.pc = "done" /\ q.handle = "bob"
        /\ q.user.exists /\ ~q.user.enabled
        /\ q.status = 403 /\ q.error = "User is disabled"

\* C13: a recover-step1 request that issues a code is answered 204 without a
\* body, the same answer whatever code was drawn; the code is in the cache.
C13_Step1AnswerHidesCode ==
    [][\A r \in Reqs :
          LET q == reqs[r] IN
          (/\ q.kind = "step1" /\ q.pc = "issue" /\ reqs'[r] # q
           /\ q.user.exists /\ q.user.enabled)
          => (/\ reqs'[r] = [q EXCEPT !.pc = "done", !.status = 204]
              /\ cache'[q.user.handle].value \in Codes
              /\ cache'[q.user.handle].left = MfaTtl)]_vars

\* A code was issued for alice and the request answered 204.
C13_Witness ==
    \E r \in Reqs :
        LET q == reqs[r] IN
        /\ q.kind = "step1" /\ q.pc = "done" /\ q.status = 204
        /\ q.handle = "alice"
        /\ CacheGet(cache, "alice") = "9998"

\* C14: a recover-step2 request takes a point of the recovery limiter only
\* at its comparison and only when the account exists, is enabled and the
\* supplied code differs from the outstanding one; such a request, while the
\* address has budget left, takes exactly one point and is answered 403
\* "Incorrect code".
C14_PointOnlyOnMismatch ==
    [][\A r \in Reqs :
          LET q == reqs[r]
              mismatch == /\ q.pc = "check"
                          /\ q.user.exists /\ q.user.enabled
                          /\ q.code # CacheGet(cache, q.user.handle)
              left == Remaining(recoverLimiter, q.ip, RecoverPoints) IN
          /\ Arrives(r, "step2") => recoverLimiter' = recoverLimiter
          /\ (q.kind = "step2" /\ q.pc # "reset" /\ reqs'[r] # q /\ ~Free(r)) =>
                /\ ~mismatch => recoverLimiter' = recoverLimiter
                /\ (mismatch /\ left > 0) =>
                      /\ Remaining(recoverLimiter', q.ip, RecoverPoints) = left - 1
                      /\ reqs'[r].pc = "done" /\ reqs'[r].status = 403
                      /\ reqs'[r].error = "Incorrect code"]_vars

\* A request for a handle without a record was answered 404 while points of
\* its address were consumed, and none was taken for it.
C14_Witness ==
    \E r \in Reqs :
        LET q == reqs[r] IN
        /\ q.kind = "step2" /\ q.pc = "done" /\ q.status = 404
        /\ recoverLimiter[q.ip].consumed \in 1..(RecoverPoints - 1)
        /\ recoverLimiter[q.ip].left > 0

\* A recover-step2 request answered 204, still in its slot.
Recovered(q) == q.kind = "step2" /\ q.pc = "done" /\ q.status = 204

\* A completed login request for the handle of q that found the store as it
\* is now and was not rate-limited.
LoginAfter(l, q) ==
    /\ l.kind = "login" /\ l.pc = "done"
    /\ l.handle = q.handle
    /\ l.before = store
    /\ l.status # 429

\* C15: after a recover-step2 answered 204 that carried a non-empty new
\* password p, the record of the handle holds a generated salt s and the hash
\* of p under s; a following login that is not rate-limited is answered 200
\* when it carries p and 403 "Incorrect credentials" when it carries a
\* password whose hash under s differs.
C15_RecoveredPasswordLogsIn ==
    \A r \in Reqs :
        LET q == reqs[r]
            u == Stored(q.handle) IN
        (Recovered(q) /\ ~Falsy(q.password)) =>
            /\ u.salt \in Salts
            /\ u.password = getPasswordHash(q.password, u.salt)
            /\ \A k \in Reqs :
                  LET l == reqs[k] IN
                  (LoginAfter(l, q) /\ l.password # Missing) =>
                      IF getPasswordHash(l.password, u.salt) = u.password
                      THEN l.password = q.password /\ l.status = 200 /\ l.session = q.handle
                      ELSE l.status = 403 /\ l.error = "Incorrect credentials"

\* After the password of alice was changed by recovery, a login with the
\* new password succeeded.
C15_Witness ==
    \E r, k \in Reqs :
        /\ Recovered(reqs[r]) /\ reqs[r].password = "pw2"
        /\ reqs[r].before # store
        /\ LoginAfter(reqs[k], reqs[r])
        /\ reqs[k].password = "pw2" /\ reqs[k].status = 200

\* C16: after a recover-step2 answered 204 that carried no new password,
\* the record of the handle has an empty hash and an empty salt, and a
\* following login that is not rate-limited is answered 200 whatever
\* password it carries.
C16_RecoveryWithoutPasswordClears ==
    \A r \in Reqs :
        LET q == reqs[r]
            u == Stored(q.handle) IN
        (Recovered(q) /\ Falsy(q.password)) =>
            /\ u.password = EmptyHash
            /\ u.salt = ""
            /\ \A k \in Reqs :
                  LoginAfter(reqs[k], q) =>
                      reqs[k].status = 200 /\ reqs[k].session = q.handle

\* After the password of alice was cleared by recovery, a login with some
\* password succeeded.
C16_Witness ==
    \E r, k \in Reqs :
        /\ Recovered(reqs[r]) /\ reqs[r].password = ""
        /\ reqs[r].before # store
        /\ LoginAfter(reqs[k], reqs[r])
        /\ reqs[k].password = "pw2" /\ reqs[k].status = 200

\* C17: the reset of a successful recover-step2 leaves the recovery bucket
\* of the request's address at the full budget and the buckets of the other
\* addresses as they were, and the bucket is still full when the request is
\* answered.
C17_RecoveryResetsOwnBucket ==
    [][\A r \in Reqs :
          LET q == reqs[r] IN
          /\ (q.kind = "step2" /\ q.pc = "reset" /\ reqs'[r].pc # q.pc) =>
                /\ Remaining(recoverLimiter', q.ip, RecoverPoints) = RecoverPoints
                /\ \A ip \in IPs : ip # q.ip => recoverLimiter'[ip] = recoverLimiter[ip]
          /\ (q.kind = "step2" /\ q.pc = "remove" /\ reqs'[r].pc # q.pc) =>
                /\ reqs'[r].status = 204
                /\ recoverLimiter' = recoverLimiter
                /\ Remaining(recoverLimiter', q.ip, RecoverPoints) = RecoverPoints]_vars

\* A recovery was answered 204 with its bucket full while another address
\* has used up its points.
C17_Witness ==
    \E r \in Reqs :
        LET q == reqs[r] IN
        /\ Recovered(q)
        /\ recoverLimiter[q.ip] = NoBucket
        /\ \E ip \in IPs :
              /\ ip # q.ip
              /\ recoverLimiter[ip].consumed = RecoverPoints
              /\ recoverLimiter[ip].left > 0

\* A create request that has written its record.
Created(q) ==
    /\ q.kind = "create"
    /\ q.pc = "dirs" \/ (q.pc = "done" /\ q.status = 200)

\* The keys of the records a store holds that are administrators.
Admins(st) == {k \in Keys : st[k].exists /\ st[k].admin}

\* C18: when create requests are handled one after the other, the account
\* created while the store holds no account is an administrator and every
\* account created while the store holds one is not.
C18_FirstAccountIsAdmin ==
    \A r \in Reqs :
        LET q == reqs[r] IN
        Created(q) =>
            /\ store[toKey(q.user.handle)] = q.user
            /\ q.user.admin <=> (\A k \in Keys : ~q.before[k].exists)
            /\ Cardinality(Admins(store)) = 1

\* An account was created after the first one and is no administrator.
C18_Witness ==
    \E r \in Reqs :
        LET q == reqs[r] IN
        /\ Created(q) /\ q.pc = "done"
        /\ ~q.user.admin
        /\ \E k \in Keys : q.before[k].exists /\ q.before[k].admin

\* C19: under every interleaving of the steps of concurrent create requests
\* that start on a store without accounts, exactly one of the accounts in
\* the store is an administrator.
C19_OneAdminUnderInterleaving ==
    (\E k \in Keys : store[k].exists) => Cardinality(Admins(store)) = 1

\* C20: a create request whose normalized handle is the handle of an account
\* in the store is answered 409 and leaves the store as it found it; a create
\* request writes only a record whose handle its scan did not see, and no
\* other record.
C20_CreateNeverOverwrites ==
    \A r \in Reqs :
        LET q == reqs[r] IN
        q.kind = "create" =>
            /\ (q.pc = "done" /\ q.status = 409) =>
                  /\ store = q.before
                  /\ q.before[toKey(kebabCase(q.handle))].exists
            /\ (q.pc = "done" /\ q.status = 200) =>
                  ~q.before[toKey(kebabCase(q.handle))].exists
            /\ (q.pc = "write" \/ Created(q)) =>
                  /\ q.user.handle = kebabCase(q.handle)
                  /\ q.user.handle \notin q.handles
            /\ store # q.before =>
                  /\ Created(q)
                  /\ \A k \in Keys : k # toKey(q.user.handle) => store[k] = q.before[k]

\* A request that spells the handle of an account differently was answered
\* 409.
C20_Witness ==
    \E r \in Reqs :
        LET q == reqs[r] IN
        /\ q.kind = "create" /\ q.pc = "done" /\ q.status = 409
        /\ q.handle = "Alice"
        /\ store[toKey("alice")].exists
        /\ store = q.before

\* C21: under every interleaving of the steps of two create requests for the
\* same normalized handle, at most one of them is answered 200, so the record
\* the first one wrote is not replaced by the second.
C21_OneCreatePerHandle ==
    \A r, k \in Reqs :
        LET q == reqs[r]
            o == reqs[k] IN
        (/\ r # k
         /\ q.kind = "create" /\ q.pc = "done" /\ q.status = 200
         /\ o.kind = "create" /\ o.pc = "done"
         /\ kebabCase(o.handle) = q.user.handle)
        => o.status # 200

\* C22: every account record in the store has an empty password hash exactly
\* when it has an empty salt.
C22_HashEmptyIffSaltEmpty ==
    \A k \in Keys :
        store[k].exists => (store[k].password = EmptyHash <=> store[k].salt = "")

----------------------------------------------------------------------------
(* Listing *)

\* A /get request that has been answered with a page.
Listed(q) == q.kind = "get" /\ q.pc = "done" /\ q.status = 200

\* needle occurs in hay when the case of the letters is ignored.
Contains(hay, needle) ==
    \E i \in 0..(Len(hay) - Len(needle)) :
        \A j \in 1..Len(needle) :
            toLowerCase(<<hay[i + j]>>) = toLowerCase(<<needle[j]>>)

\* The keys of the records a search query selects.
Hits(st, searchQuery) ==
    {k \in DOMAIN st :
        /\ st[k].exists
        /\ \/ Falsy(searchQuery)
           \/ Contains(Chars(st[k].name), Chars(searchQuery))
           \/ Contains(Chars(st[k].handle), Chars(searchQuery))}

\* Record j comes before record k in the listing: it was created earlier, or
\* at the same time and storage enumerates it first.
Earlier(st, j, k) ==
    LET at(x) == CHOOSE i \in 1..Len(StorageOrder) : StorageOrder[i] = x IN
    \/ st[j].created < st[k].created
    \/ st[j].created = st[k].created /\ at(j) < at(k)

\* The position (from 0) of record k among the selected records.
Position(st, hits, k) == Cardinality({j \in hits : Earlier(st, j, k)})

\* C23: a /get answer for page >= 1 and pageSize >= 1 holds exactly the
\* records at positions (page-1)*pageSize .. page*pageSize-1 of the records
\* that match the search query without regard to case in name or handle,
\* ordered by creation time ascending; total is the number of matches and
\* totalPages is total/pageSize rounded up.  So the pages of one query are
\* disjoint and cover every match.
C23_PageIsSliceOfSortedMatches ==
    \A r \in Reqs :
        LET q == reqs[r]
            page == q.body.page
            pageSize == q.body.pageSize
            hits == Hits(q.before, q.searchQuery)
            onPage == {k \in hits :
                         /\ (page - 1) * pageSize <= Position(q.before, hits, k)
                         /\ Position(q.before, hits, k) < page * pageSize} IN
        (Listed(q) /\ page >= 1 /\ pageSize >= 1) =>
            /\ q.page \in {"1", "2", "3"} => parseInt(q.page) = <<page>>
            /\ q.pageSize \in {"1", "2"} => parseInt(q.pageSize) = <<pageSize>>
            /\ q.body.total = Cardinality(hits)
            /\ (q.body.totalPages - 1) * pageSize < q.body.total
            /\ q.body.total <= q.body.totalPages * pageSize
            /\ Len(q.body.users) = Cardinality(onPage)
            /\ \A k \in onPage :
                   LET i == Position(q.before, hits, k) - (page - 1) * pageSize + 1 IN
                   /\ q.body.users[i].handle = q.before[k].handle
                   /\ q.body.users[i].created = q.before[k].created

\* The second page of size 1 of a search that two records match, the one
\* created later being first in storage order.
C23_Witness ==
    \E r \in Reqs :
        LET q == reqs[r] IN
        /\ Listed(q)
        /\ q.searchQuery = "A" /\ q.page = "2" /\ q.pageSize = "1"
        /\ q.body.total = 2 /\ q.body.totalPages = 2
        /\ Len(q.body.users) = 1
        /\ q.body.users[1].handle = DEFAULT_USER.handle

\* C24: no answer of /get, /list or /count holds a password hash or a salt:
\* /list and /count answer two numbers, and an entry of /get has the fields
\* handle, name, avatar, admin, enabled, created and password, where
\* password is a boolean that is true exactly when the record's hash is not
\* empty.
C24_ListingsHideHashAndSalt ==
    \A r \in Reqs :
        LET q == reqs[r] IN
        /\ (q.kind \in {"list", "count"} /\ q.pc = "done" /\ q.status = 200) =>
               /\ DOMAIN q.body = {"total", "enabled"}
               /\ q.body.total \in Nat /\ q.body.enabled \in Nat
        /\ Listed(q) =>
               \A i \in 1..Len(q.body.users) :
                   LET u == q.body.users[i]
                       rec == q.before[toKey(u.handle)] IN
                   /\ DOMAIN u = {"handle", "name", "avatar", "admin", "enabled",
                                  "created", "password"}
                   /\ u.password \in BOOLEAN
                   /\ u.password <=> rec.password # EmptyHash
                   /\ u.name = rec.name /\ u.avatar = getUserAvatar(rec.handle)
                   /\ u.admin = rec.admin /\ u.enabled = rec.enabled
                   /\ u.created = rec.created

\* A page that lists an account with a password next to one without.
C24_Witness ==
    \E r \in Reqs :
        LET q == reqs[r] IN
        /\ Listed(q)
        /\ \E i, j \in 1..Len(q.body.users) :
              /\ q.body.users[i].password /\ ~q.body.users[j].password
              /\ q.before[toKey(q.body.users[i].handle)].salt # ""

----------------------------------------------------------------------------
(* Administration *)

\* An administration request that has been answered.
Administered(q) == q.kind \in FlagOps \cup {"delete"} /\ q.pc = "done"

\* C25: a disable, demote or delete request that names the caller's own
\* handle is answered 400 with the self-action error and leaves the store as
\* it found it, whether or not the caller has a record and whatever the
\* record says.
C25_SelfActionRefused ==
    \A r \in Reqs :
        LET q == reqs[r] IN
        (/\ Administered(q)
         /\ q.kind \in {"disable", "demote", "delete"}
         /\ ~Falsy(q.handle) /\ q.handle = q.caller)
        => /\ q.status = 400
           /\ q.error = SelfError(q.kind)
           /\ store = q.before

\* A caller whose record is gone asks to disable their own account.
C25_Witness ==
    \E r \in Reqs :
        LET q == reqs[r] IN
        /\ Administered(q) /\ q.kind = "disable"
        /\ q.handle = "alice" /\ q.caller = "alice"
        /\ ~store[toKey("alice")].exists
        /\ q.status = 400

\* C26: the fallback account keeps its record through every sequence of
\* delete requests, whoever the callers are: a delete that names it is
\* answered 400 and removes nothing.
C26_DefaultUserSurvives ==
    /\ store[toKey(DEFAULT_USER.handle)].exists
    /\ \A r \in Reqs :
          LET q == reqs[r] IN
          (Administered(q) /\ q.kind = "delete" /\ q.handle = DEFAULT_USER.handle)
          => q.status = 400 /\ store = q.before

\* Another account's caller asks to delete the fallback account, after an
\* account has been deleted.
C26_Witness ==
    \E r \in Reqs :
        LET q == reqs[r] IN
        /\ Administered(q) /\ q.kind = "delete"
        /\ q.handle = DEFAULT_USER.handle /\ q.caller = "alice"
        /\ q.status = 400
        /\ ~store[toKey("bob")].exists
        /\ store[toKey(DEFAULT_USER.handle)].exists

\* C27: an enable, disable, promote, demote or delete request that names a
\* handle without a record, not the caller's own, is answered 404 and leaves
\* the store as it found it.
C27_NoRecordIs404 ==
    \A r \in Reqs :
        LET q == reqs[r] IN
        (/\ Administered(q)
         /\ ~Falsy(q.handle) /\ q.handle # q.caller
         /\ ~q.before[toKey(q.handle)].exists)
        => q.status = 404 /\ store = q.before

----------------------------------------------------------------------------
(* Rate limiting *)

\* A handler of the request in slot r takes a step.
Stepped(r) == reqs'[r].pc # reqs[r].pc

\* No request is handled in this step: time passes.
TimeStep == \A r \in Reqs : ~Stepped(r)

\* C28: for each limiter and each source address, a window of `duration`
\* seconds holds at most `points` accepted consumptions (5 per 60 s at
\* login, 5 per 300 s at recovery): while the bucket is exhausted no point is
\* accepted and the request that asks for one is answered 429; an accepted
\* point neither extends the window nor restarts the count, which ends only
\* when the window runs out or the handler of a successful request deletes
\* the bucket.
C28_BudgetPerWindow ==
    [][\A ip \in IPs :
          LET lb == loginLimiter[ip]
              rb == recoverLimiter[ip] IN
          /\ loginLimiter'[ip].consumed <= LoginPoints
          /\ loginLimiter'[ip].left <= LoginDuration
          /\ recoverLimiter'[ip].consumed <= RecoverPoints
          /\ recoverLimiter'[ip].left <= RecoverDuration
          /\ \A r \in Reqs :
                /\ (/\ Arrives(r, "login") /\ reqs'[r].ip = ip /\ ~Falsy(reqs'[r].handle)
                    /\ Rejects(loginLimiter, ip, LoginPoints))
                   => (/\ reqs'[r].pc = "done" /\ reqs'[r].status = 429
                       /\ loginLimiter'[ip] = lb)
                /\ (/\ Arrives(r, "step1") /\ reqs'[r].ip = ip /\ ~Falsy(reqs'[r].handle)
                    /\ Rejects(recoverLimiter, ip, RecoverPoints))
                   => (/\ reqs'[r].pc = "done" /\ reqs'[r].status = 429
                       /\ recoverLimiter'[ip] = rb)
                /\ (/\ reqs[r].kind = "step2" /\ reqs[r].pc = "check" /\ Stepped(r)
                    /\ reqs[r].ip = ip
                    /\ reqs[r].user.exists /\ reqs[r].user.enabled
                    /\ reqs[r].code # CacheGet(cache, reqs[r].user.handle)
                    /\ Rejects(recoverLimiter, ip, RecoverPoints))
                   => (/\ reqs'[r].pc = "done" /\ reqs'[r].status = 429
                       /\ recoverLimiter'[ip] = rb)
          /\ (~TimeStep /\ lb.left > 0 /\ loginLimiter'[ip] # lb) =>
                \/ /\ loginLimiter'[ip] = [lb EXCEPT !.consumed = @ + 1]
                   /\ lb.consumed < LoginPoints
                \/ /\ loginLimiter'[ip] = NoBucket
                   /\ \E r \in Reqs : /\ Stepped(r) /\ reqs'[r].ip = ip
                                       /\ reqs'[r].kind = "login" /\ reqs'[r].status = 200
          /\ (~TimeStep /\ rb.left > 0 /\ recoverLimiter'[ip] # rb) =>
                \/ /\ recoverLimiter'[ip] = [rb EXCEPT !.consumed = @ + 1]
                   /\ rb.consumed < RecoverPoints
                \/ /\ recoverLimiter'[ip] = NoBucket
                   /\ \E r \in Reqs : /\ Stepped(r) /\ reqs'[r].ip = ip
                                       /\ reqs'[r].kind = "step2"
                                       /\ store[toKey(reqs'[r].handle)] = reqs'[r].user
          /\ (TimeStep /\ loginLimiter'[ip] # lb) =>
                \/ loginLimiter'[ip] = NoBucket
                \/ /\ loginLimiter'[ip].consumed = lb.consumed
                   /\ loginLimiter'[ip].left < lb.left
          /\ (TimeStep /\ recoverLimiter'[ip] # rb) =>
                \/ recoverLimiter'[ip] = NoBucket
                \/ /\ recoverLimiter'[ip].consumed = rb.consumed
                   /\ recoverLimiter'[ip].left < rb.left]_vars

\* A login request is answered 429 at an address that has used up both its
\* login points and its recovery points.
C28_Witness ==
    \E r \in Reqs :
        LET q == reqs[r] IN
        /\ q.kind = "login" /\ q.pc = "done" /\ q.status = 429
        /\ loginLimiter[q.ip].consumed = LoginPoints /\ loginLimiter[q.ip].left > 0
        /\ recoverLimiter[q.ip].consumed = RecoverPoints /\ recoverLimiter[q.ip].left > 0

\* C29: exhaustion is transient.  While the clock runs, an address that is
\* rate-limited at login, or at recovery, is eventually not rate-limited any
\* more, with no successful request and no administrative action: rejected
\* requests do not prolong the window.
C29_ExhaustionHeals ==
    \A ip \in IPs :
        /\ Rejects(loginLimiter, ip, LoginPoints) ~> ~Rejects(loginLimiter, ip, LoginPoints)
        /\ Rejects(recoverLimiter, ip, RecoverPoints) ~> ~Rejects(recoverLimiter, ip, RecoverPoints)

\* A login request was answered 429, and the window of its address has run
\* out since.
C29_Witness ==
    \E r \in Reqs :
        LET q == reqs[r] IN
        /\ q.kind = "login" /\ q.pc = "done" /\ q.status = 429
        /\ loginLimiter[q.ip] = NoBucket
        /\ attempts[q.ip].sinceSuccess < 0

\* C30: the two limiters are independent and so are the addresses: a step
\* of a login request leaves every recovery bucket as it is, a step of a
\* recover-step1 or recover-step2 request leaves every login bucket as it
\* is, and a step of a request from one address leaves the buckets of every
\* other address as they are.
C30_LimitersAndAddressesIndependent ==
    [][\A r \in Reqs :
          LET q == reqs'[r] IN
          (q # reqs[r]) =>
              /\ q.kind = "login" => recoverLimiter' = recoverLimiter
              /\ q.kind \in {"step1", "step2"} => loginLimiter' = loginLimiter
              /\ \A ip \in IPs \ {q.ip} :
                    /\ loginLimiter'[ip] = loginLimiter[ip]
                    /\ recoverLimiter'[ip] = recoverLimiter[ip]]_vars

\* A login has succeeded at one address, which forgot its login bucket,
\* while its recovery bucket and both buckets of the other address hold
\* points.
C30_Witness ==
    \E r \in Reqs, other \in IPs :
        LET q == reqs[r] IN
        /\ q.kind = "login" /\ q.pc = "done" /\ q.status = 200
        /\ other # q.ip
        /\ loginLimiter[q.ip] = NoBucket
        /\ recoverLimiter[q.ip].consumed > 0
        /\ loginLimiter[other].consumed > 0
        /\ recoverLimiter[other].consumed > 0

----------------------------------------------------------------------------
(* Recovery: what a failure leaves behind *)

\* C31: a recover-step1 request that is answered 404, 403 or 429 issues no
\* challenge and leaves the cache as it is, so that a code outstanding for
\* any handle stays valid; the point a request took on arrival stays taken
\* when the request is answered 404 or 403.
C31_FailedStep1KeepsCacheAndPoint ==
    [][\A r \in Reqs :
          LET q == reqs[r]
              n == reqs'[r]
              b == recoverLimiter[n.ip] IN
          /\ (/\ n.kind = "step1" /\ (Arrives(r, "step1") \/ Stepped(r))
              /\ n.pc = "done" /\ n.status \in {404, 403, 429})
             => (/\ cache' = cache
                 /\ challenges' = challenges
                 /\ \A h \in Handles : CacheGet(cache', h) = CacheGet(cache, h)
                 /\ recoverLimiter' = recoverLimiter)
          /\ (Arrives(r, "step1") /\ n.pc = "read")
             => (/\ recoverLimiter'[n.ip].consumed = IF b.left > 0 THEN b.consumed + 1 ELSE 1
                 /\ cache' = cache)
          /\ (q.kind = "step1" /\ q.pc = "read" /\ Stepped(r))
             => (recoverLimiter' = recoverLimiter /\ cache' = cache)]_vars

\* A request for the disabled bob has been answered 403 while a code for
\* alice is outstanding, and its point is in the bucket.
C31_Witness ==
    \E r \in Reqs :
        LET q == reqs[r] IN
        /\ q.kind = "step1" /\ q.pc = "done" /\ q.status = 403
        /\ CacheGet(cache, "alice") # Miss
        /\ recoverLimiter[q.ip].consumed >= 2 /\ recoverLimiter[q.ip].left > 0

\* A recover-step2 request that has been answered "Incorrect code".
WrongCode(q) ==
    q.kind = "step2" /\ q.pc = "done" /\ q.status = 403 /\ q.error = "Incorrect code"

\* C32: a recover-step2 request that is refused for a wrong code leaves the
\* cache as it is, and the code that was outstanding still verifies: of the
\* requests that carry that code afterwards, within the TTL, one is answered
\* 204.
C32_WrongCodeKeepsChallenge ==
    /\ \A r \in Reqs :
          (WrongCode(reqs[r]) /\ reqs[r].mfaCode # Miss /\ reqs[2].pc = "idle")
          => CacheGet(cache, reqs[r].handle) = reqs[r].mfaCode
    /\ (/\ WrongCode(reqs[1]) /\ reqs[1].mfaCode # Miss
        /\ reqs[2].kind = "step2" /\ reqs[2].pc = "done"
        /\ reqs[2].handle = reqs[1].handle /\ reqs[2].code = reqs[1].mfaCode)
       => \/ reqs[2].status = 204
          \/ challenges[reqs[1].handle].wins >= 1

\* After a wrong code was refused, the request with the code that was
\* outstanding is answered 204.
C32_Witness ==
    /\ WrongCode(reqs[1]) /\ reqs[1].mfaCode # Miss
    /\ reqs[2].kind = "step2" /\ reqs[2].pc = "done"
    /\ reqs[2].code = reqs[1].mfaCode /\ reqs[2].status = 204
    /\ challenges[reqs[1].handle].wins = 1

\* C33: a recover-step2 request for handle h that is answered 204 changes
\* the hash and the salt of the record of h and nothing else: handle, name,
\* admin, enabled and created are as the request found them, and so is the
\* record of every other handle.
C33_RecoveryChangesHashAndSaltOnly ==
    \A r \in Reqs :
        LET q == reqs[r]
            key == toKey(q.handle) IN
        Recovered(q) =>
            /\ store[key] = [q.before[key] EXCEPT !.password = store[key].password,
                                                  !.salt = store[key].salt]
            /\ store[key].exists
            /\ \A k \in DOMAIN store \ {key} : store[k] = q.before[k]

\* The administrator alice has recovered her account with a new password.
C33_Witness ==
    \E r \in Reqs :
        LET q == reqs[r] IN
        /\ Recovered(q) /\ q.handle = "alice"
        /\ store[toKey("alice")].admin
        /\ store[toKey("alice")].password # q.before[toKey("alice")].password
        /\ store[toKey("alice")].salt # ""

----------------------------------------------------------------------------
(* Administration: what an operation changes *)

\* An enable, disable, promote or demote request that has been answered 204.
Flagged(q) == q.kind \in FlagOps /\ q.pc = "done" /\ q.status = 204

\* C34: an enable, disable, promote or demote request that is answered 204
\* has set one field of the record it names (enabled to true or false,
\* admin to true or false) and left the other fields of that record, hash
\* and salt among them, and every other record as it found them.  Sent
\* again, it changes nothing.
C34_FlagOpSetsOneField ==
    \A r \in Reqs :
        LET q == reqs[r]
            key == toKey(q.handle)
            old == q.before[key] IN
        Flagged(q) =>
            /\ old.exists
            /\ q.kind = "enable" => store[key] = [old EXCEPT !.enabled = TRUE]
            /\ q.kind = "disable" => store[key] = [old EXCEPT !.enabled = FALSE]
            /\ q.kind = "promote" => store[key] = [old EXCEPT !.admin = TRUE]
            /\ q.kind = "demote" => store[key] = [old EXCEPT !.admin = FALSE]
            /\ \A k \in DOMAIN store \ {key} : store[k] = q.before[k]
            /\ ApplyFlag(q.kind, store[key]) = store[key]

\* A disable request for an account that was disabled already has been
\* answered 204, and the store is as the request found it.
C34_Witness ==
    \E r \in Reqs :
        LET q == reqs[r] IN
        /\ Flagged(q) /\ q.kind = "disable" /\ q.handle = "bob"
        /\ ~q.before[toKey("bob")].enabled
        /\ store = q.before
        /\ store[toKey("alice")].password # EmptyHash

----------------------------------------------------------------------------
(* Concurrent writers *)

\* C35: when the requests in flight name pairwise distinct handles, every
\* write changes the record of its own handle only, and it changes the
\* record the store holds at that moment: an administration request sets its
\* field on it, a recover-step2 request its hash and salt.  No update of one
\* record is lost or altered by a request on another, so every interleaving
\* ends in the store that the requests give one after the other.
C35_DistinctHandlesCommute ==
    [][\A r \in Reqs :
          LET q == reqs[r]
              key == toKey(q.handle) IN
          (Stepped(r) /\ store' # store) =>
             /\ \A k \in DOMAIN store \ {key} : store'[k] = store[k]
             /\ q.kind = "enable" => store'[key] = [store[key] EXCEPT !.enabled = TRUE]
             /\ q.kind = "disable" => store'[key] = [store[key] EXCEPT !.enabled = FALSE]
             /\ q.kind = "promote" => store'[key] = [store[key] EXCEPT !.admin = TRUE]
             /\ q.kind = "demote" => store'[key] = [store[key] EXCEPT !.admin = FALSE]
             /\ q.kind = "step2" =>
                   store'[key] = [store[key] EXCEPT !.password = q.user.password,
                                                    !.salt = q.user.salt]]_vars

\* An enable of bob and a recovery of alice have both been answered 204, and
\* each arrived before the other wrote.
C35_Witness ==
    /\ Flagged(reqs[1]) /\ reqs[1].kind = "enable"
    /\ Recovered(reqs[2])
    /\ ~reqs[2].before[toKey("bob")].enabled
    /\ reqs[1].before[toKey("alice")].password # store[toKey("alice")].password
    /\ store[toKey("bob")].enabled
    /\ store[toKey("alice")].password = getPasswordHash("pw2", store[toKey("alice")].salt)

\* C36: once a disable of h has been answered 204 and no enable of h has
\* followed, the record of h has enabled = false, whatever a concurrent
\* recover-step2 for h read before the disable wrote.
C36_DisableSticks ==
    (/\ Flagged(reqs[1]) /\ reqs[1].kind = "disable"
     /\ store[toKey(reqs[1].handle)].exists)
    => ~store[toKey(reqs[1].handle)].enabled

\* C37: once a delete of h has been answered 204 and no create of h has
\* followed, the store holds no record of h, whatever a concurrent request
\* for h read before the delete.
C37_DeletedStaysDeleted ==
    (reqs[1].kind = "delete" /\ reqs[1].pc = "done" /\ reqs[1].status = 204)
    => ~store[toKey(reqs[1].handle)].exists

----------------------------------------------------------------------------
(* Administrators *)

\* The enabled administrators of a store.
EnabledAdmins(st) == {k \in DOMAIN st : st[k].exists /\ st[k].enabled /\ st[k].admin}

\* C38: when administration requests are handled one at a time and each is
\* sent by a caller whose account exists, is enabled and is an administrator
\* when it arrives, the caller's account is still so when the request has
\* been answered; so the store always holds an enabled administrator.
C38_CallerStaysEnabledAdmin ==
    /\ \A r \in Reqs :
          LET q == reqs[r] IN
          (Administered(q) /\ toKey(q.caller) \in EnabledAdmins(q.before))
          => toKey(q.caller) \in EnabledAdmins(store)
    /\ EnabledAdmins(store) # {}

\* The last enabled administrator has asked to demote their own account and
\* has been answered 400.
C38_Witness ==
    \E r \in Reqs :
        LET q == reqs[r] IN
        /\ Administered(q) /\ q.kind = "demote" /\ q.handle = q.caller
        /\ q.status = 400
        /\ EnabledAdmins(store) = {toKey(q.caller)}

----------------------------------------------------------------------------
(* Missing fields *)

\* C39: a login or recover-step1 request without a handle, and a
\* recover-step2 request without a handle or without a code, is answered 400
\* before a limiter is asked: no point is taken, and the store and the cache
\* stay as they are.
C39_MissingFieldsIs400 ==
    [][\A r \in Reqs :
          LET n == reqs'[r] IN
          (\/ (Arrives(r, "login") \/ Arrives(r, "step1")) /\ Falsy(n.handle)
           \/ Arrives(r, "step2") /\ (Falsy(n.handle) \/ Falsy(n.code)))
          => (/\ n.pc = "done" /\ n.status = 400
              /\ loginLimiter' = loginLimiter
              /\ recoverLimiter' = recoverLimiter
              /\ store' = store
              /\ cache' = cache)]_vars

\* A login request without a handle has been answered 400 at an address
\* whose login points are used up.
C39_Witness ==
    \E r \in Reqs :
        LET q == reqs[r] IN
        /\ q.kind = "login" /\ q.pc = "done" /\ q.status = 400
        /\ Falsy(q.handle)
        /\ Rejects(loginLimiter, q.ip, LoginPoints)

----------------------------------------------------------------------------
(* Page numbers *)

\* C40: /get never works with a page below 1 or a page size below 1: the
\* page starts at a position that is not negative, it holds at most pageSize
\* entries, and totalPages is not negative.
C40_PageAndSizeAtLeastOne ==
    \A r \in Reqs :
        LET q == reqs[r] IN
        Listed(q) =>
            /\ q.body.page >= 1
            /\ q.body.pageSize >= 1
            /\ (q.body.page - 1) * q.body.pageSize >= 0
            /\ Len(q.body.users) <= q.body.pageSize
            /\ q.body.totalPages >= 0

=============================================================================
